---------------------------- MODULE Spec2Model ----------------------------
(***************************************************************************)
(* A model of moq-prototype: the state machines (command queue, telemetry),*)
(* the drone session registry (DroneSessionMap), the entity registry       *)
(* (UnitMap / UnitRef over Arc / Weak), the controller's announcement      *)
(* loop and the gRPC DroneSession handler.                                 *)
(*                                                                         *)
(* Values: an Option<T> is a sequence of length 0 (None) or 1 (Some(x)).   *)
(* A command (Vec<u8>) and a Position are opaque values drawn from small   *)
(* sets. A Uuid is a fresh number.                                         *)
(***************************************************************************)
EXTENDS Integers, Sequences, FiniteSets, TLC

\* ------------------------------------------------------------------ bounds
NumCommands == 3
NumPositions == 2
MaxEnqueues == 3
MaxPolls == 4
MaxTelemetryCalls == 5
MaxUuids == 3
MaxAllocs == 2
MaxPending == 1
MaxBroadcasts == 2
MaxCalls == 2
MaxAnnouncements == 3
timeout == 2
MaxHandled == 3
MaxSent == 2
MaxConnects == 2

UnitIds == {"drone-1", "drone-2"}

Commands == 1..NumCommands
Positions == 1..NumPositions
Tasks == {"task-1", "task-2"}
DroneIds == {"drone-1"}

\* Two of the four command types the generator draws from; the rest of a
\* generated command is random and no code looks at it.
COMMANDS == {"Goto", "Land"}

None == <<>>
Some(x) == <<x>>

VARIABLES
    command_machine,    \* a CommandQueueMachine driven directly
    telemetry_machine,  \* a TelemetryMachine driven directly
    echo_machine,       \* an EchoMachine driven directly
    unit_ctx,       \* a UnitContext the tasks call concurrently
    history,            \* the calls made on the machine so far, with their results
    sessions,           \* DroneSessionMap.sessions: UnitId -> Option<DroneSession>
    uuids,              \* how many Uuids DroneSessionId::generate has drawn
    holders,            \* sessions create_session returned Ok for, not yet removed
    released,           \* sessions remove_session has returned
    entity_map,         \* UnitMap.entity_map: UnitId -> Option<Arc<UnitContext>>
    arcs,               \* the Arc allocations made so far: strong count and value
    refs,               \* the UnitRef each task holds, if any
    removed,            \* the allocations whose remove_unit has returned
    viewing,            \* where each task is in a UnitRef::view call
    broadcasts,         \* how many drone broadcasts have been announced
    present,            \* the drone broadcasts announced and not yet departed
    tasks,              \* the running tasks the controller has spawned
    calls,              \* the DroneSession calls the gRPC server has received
    connect_call,       \* the RpcClient::connect call: position, locals, result
    consumer,           \* announced on self.consumer and not yet returned
    announcements,      \* what self.consumer.announced() has returned so far
    elapsed,            \* time since wait_for_server armed its timeout, in ticks
    published,          \* the client broadcasts created and not yet dropped
    tracks,             \* the frames of the request and response tracks
    router,             \* the RpcRouter: its handlers and where run is
    rpc_sessions,       \* the router's SessionMap: the SessionKeys with a session
    responses,          \* the response broadcasts created and not yet dropped
    handler_tasks,      \* the handler tasks spawned so far, with their guards
    last                \* the last registry call and its result

varsMachines ==
    <<command_machine, telemetry_machine, echo_machine, unit_ctx, history>>
varsSessions == <<sessions, uuids, holders, released>>
varsUnits == <<entity_map, arcs, refs, removed, viewing>>
varsController == <<broadcasts, present, tasks>>
varsGrpc == <<calls>>
varsClient == <<connect_call, announcements, elapsed, published, tracks,
               consumer>>
varsRouter == <<router, rpc_sessions, responses, handler_tasks>>
varsRpc == <<varsClient, varsRouter>>
vars == <<command_machine, telemetry_machine, echo_machine, unit_ctx,
          history,
          sessions, uuids, holders, released,
          entity_map, arcs, refs, removed, viewing,
          broadcasts, present, tasks, calls,
          connect_call, announcements, elapsed, published, tracks, consumer,
          router, rpc_sessions, responses, handler_tasks, last>>

\* ------------------------------------------------- CommandQueueMachine
CommandQueueMachine_new == [pending_commands |-> <<>>]

pending_count(m) == Len(m.pending_commands)

is_empty(m) == m.pending_commands = <<>>

\* VecDeque::push_back
enqueue(m, cmd) == [m EXCEPT !.pending_commands = Append(@, cmd)]

\* A stack instead of a queue (VecDeque::pop_back): what C9 must tell apart.
dequeue_pop_back(m) ==
    IF m.pending_commands = <<>>
    THEN [machine |-> m, output |-> None]
    ELSE [machine |-> [m EXCEPT !.pending_commands =
                          SubSeq(@, 1, Len(@) - 1)],
          output |-> Some(m.pending_commands[Len(m.pending_commands)])]

\* A poll that hands out the front command and discards the rest (VecDeque::clear):
\* what C30 must tell apart.
dequeue_drains(m) ==
    IF m.pending_commands = <<>>
    THEN [machine |-> m, output |-> None]
    ELSE [machine |-> [m EXCEPT !.pending_commands = <<>>],
          output |-> Some(Head(m.pending_commands))]

\* VecDeque::pop_front
dequeue(m) ==
    IF m.pending_commands = <<>>
    THEN [machine |-> m, output |-> None]
    ELSE [machine |-> [m EXCEPT !.pending_commands = Tail(@)],
          output |-> Some(Head(m.pending_commands))]

\* CommandInput has the one variant Enqueue(cmd)
CommandQueueMachine_process_input(m, input) ==
    CASE input.tag = "Enqueue" -> enqueue(m, input.cmd)

\* CommandOutput::Command wraps the dequeued bytes
CommandQueueMachine_poll_output(m) == dequeue(m)

\* --------------------------------------------------- TelemetryMachine
TelemetryMachine_new == [latest_position |-> None, pending |-> FALSE]

current_position(m) == m.latest_position

has_pending(m) == m.pending

\* A set that raises the flag without storing the value: what C34 must tell
\* apart.
update_position_flag_only(m, pos) == [m EXCEPT !.pending = TRUE]

update_position(m, pos) == [latest_position |-> Some(pos), pending |-> TRUE]

\* A poll that leaves the pending flag set: what C10 must tell apart.
poll_position_keeps_pending(m) ==
    IF m.pending
    THEN [machine |-> m, output |-> m.latest_position]
    ELSE [machine |-> m, output |-> None]

\* A poll that takes the stored value out (Option::take): what C11 must tell apart.
poll_position_takes(m) ==
    IF m.pending
    THEN [machine |-> [latest_position |-> None, pending |-> FALSE],
          output |-> m.latest_position]
    ELSE [machine |-> m, output |-> None]

poll_position(m) ==
    IF m.pending
    THEN [machine |-> [m EXCEPT !.pending = FALSE], output |-> m.latest_position]
    ELSE [machine |-> m, output |-> None]

TelemetryMachine_process_input(m, input) ==
    CASE input.tag = "Position" -> update_position(m, input.pos)

TelemetryMachine_poll_output(m) == poll_position(m)

\* -------------------------------------------------------- EchoMachine
\* EchoMachine::new
EchoMachine_new == [latest_position |-> None, pending |-> FALSE]

\* EchoMachine::update_position
EchoMachine_update_position(m, pos) ==
    [latest_position |-> Some(pos), pending |-> TRUE]

\* EchoMachine::poll_position
EchoMachine_poll_position(m) ==
    IF m.pending
    THEN [machine |-> [m EXCEPT !.pending = FALSE], output |-> m.latest_position]
    ELSE [machine |-> m, output |-> None]

EchoMachine_process_input(m, input) ==
    CASE input.tag = "Position" -> EchoMachine_update_position(m, input.pos)

EchoMachine_poll_output(m) == EchoMachine_poll_position(m)

\* ---------------------------------------------------- DroneSessionMap
\* DroneSessionMap::new
DroneSessionMap_new == [u \in UnitIds |-> None]

\* DroneSessionId::generate: Uuid::new_v4, a value no earlier call returned
generate(n) == n + 1

\* DashMap::insert in place of the entry check: what C1 must tell apart.
create_session_insert(map, unit_id, n) ==
    LET session_id == generate(n) IN
    [map |-> [map EXCEPT ![unit_id] =
                 Some([session_id |-> session_id, unit_id |-> unit_id])],
     result |-> "Ok", session_id |-> Some(session_id)]

\* The DashMap entry is examined and filled under the shard's write lock, so
\* the whole call is one step. Gives the map after the call and the result.
create_session(map, unit_id, n) ==
    IF map[unit_id] # None
    THEN [map |-> map, result |-> "SessionAlreadyActive", session_id |-> None]
    ELSE LET session_id == generate(n) IN
         [map |-> [map EXCEPT ![unit_id] =
                      Some([session_id |-> session_id, unit_id |-> unit_id])],
          result |-> "Ok", session_id |-> Some(session_id)]

\* DashMap::get in place of remove: what C3 must tell apart.
remove_session_get(map, unit_id) ==
    IF map[unit_id] # None
    THEN [map |-> map, result |-> "Ok", session |-> map[unit_id]]
    ELSE [map |-> map, result |-> "SessionNotFound", session |-> None]

\* A remove that returns a newly built session in place of the stored one: what
\* C26 must tell apart.
remove_session_new_id(map, unit_id) ==
    IF map[unit_id] # None
    THEN [map |-> [map EXCEPT ![unit_id] = None],
          result |-> "Ok",
          session |-> Some([session_id |-> generate(map[unit_id][1].session_id),
                            unit_id |-> unit_id])]
    ELSE [map |-> map, result |-> "SessionNotFound", session |-> None]

\* DashMap::remove, mapped to the removed session or SessionNotFound
remove_session(map, unit_id) ==
    IF map[unit_id] # None
    THEN [map |-> [map EXCEPT ![unit_id] = None],
          result |-> "Ok", session |-> map[unit_id]]
    ELSE [map |-> map, result |-> "SessionNotFound", session |-> None]

has_active_session(map, unit_id) == map[unit_id] # None

get_session_id(map, unit_id) ==
    IF map[unit_id] # None THEN Some(map[unit_id][1].session_id) ELSE None

active_session_count(map) == Cardinality({u \in UnitIds : map[u] # None})

\* -------------------------------------------------------- UnitContext
UnitContext_new ==
    [command_machine |-> CommandQueueMachine_new,
     telemetry_machine |-> TelemetryMachine_new]

\* Each method locks one machine's Mutex for the one call it makes.
enqueue_command(ctx, cmd) ==
    [ctx |-> [ctx EXCEPT !.command_machine =
                 CommandQueueMachine_process_input(@, [tag |-> "Enqueue", cmd |-> cmd])],
     output |-> None]

poll_command(ctx) ==
    LET r == CommandQueueMachine_poll_output(ctx.command_machine) IN
    [ctx |-> [ctx EXCEPT !.command_machine = r.machine], output |-> r.output]

update_telemetry(ctx, pos) ==
    [ctx |-> [ctx EXCEPT !.telemetry_machine =
                 TelemetryMachine_process_input(@, [tag |-> "Position", pos |-> pos])],
     output |-> None]

poll_telemetry(ctx) ==
    LET r == TelemetryMachine_poll_output(ctx.telemetry_machine) IN
    [ctx |-> [ctx EXCEPT !.telemetry_machine = r.machine], output |-> r.output]

\* std::sync::Mutex of a CommandQueueMachine: the task holding the guard, if
\* any, and the value.
Mutex_new(value) == [holder |-> None, value |-> value]

\* A lock that does not exclude: what C33 must tell apart.
lock_not_exclusive(mutex, t) ==
    [acquired |-> TRUE, mutex |-> [mutex EXCEPT !.holder = Some(t)]]

\* Mutex::lock: the guard when no task holds it; the caller blocks otherwise.
lock(mutex, t) ==
    IF mutex.holder = None
    THEN [acquired |-> TRUE, mutex |-> [mutex EXCEPT !.holder = Some(t)]]
    ELSE [acquired |-> FALSE, mutex |-> mutex]

\* Drop of the MutexGuard at the end of the method
unlock(mutex) == [mutex EXCEPT !.holder = None]

\* A UnitContext shared by the tasks: the command machine's Mutex and where
\* each task is in a call of enqueue_command or poll_command.
UnitContext_shared ==
    [command_machine |-> Mutex_new(CommandQueueMachine_new),
     calls |-> [t \in Tasks |-> [pc |-> "idle", cmd |-> None, front |-> None]]]

\* ------------------------------------------------------- Arc and Weak
\* Arc::new: a new allocation holding the value, with one strong reference.
Arc_new(heap, value) == Append(heap, [strong |-> 1, value |-> Some(value)])

\* Dropping an Arc: the value is dropped with the last strong reference.
Arc_drop(heap, a) ==
    [heap EXCEPT ![a] = IF @.strong = 1
                        THEN [strong |-> 0, value |-> None]
                        ELSE [@ EXCEPT !.strong = @ - 1]]

\* Weak::upgrade: a new strong reference unless the value was dropped.
upgrade(heap, a) ==
    IF heap[a].strong > 0
    THEN [heap |-> [heap EXCEPT ![a].strong = @ + 1], arc |-> Some(a)]
    ELSE [heap |-> heap, arc |-> None]

\* ------------------------------------------------- UnitMap and UnitRef
UnitMap_new == [u \in UnitIds |-> None]

UnitRef_new(unit_id, weak_unit_context) ==
    [unit_id |-> unit_id, weak_unit_context |-> weak_unit_context]

\* An insert that puts the new context into an allocation whose value was
\* dropped, when there is one: what C7 must tell apart.
insert_unit_reuse(map, heap, unit_id, unit_context) ==
    LET dead == {a \in 1..Len(heap) : heap[a].strong = 0} IN
    IF map[unit_id] # None
    THEN [map |-> map, heap |-> heap, result |-> "UnitAlreadyPresent"]
    ELSE IF dead # {}
    THEN LET a == CHOOSE x \in dead : TRUE IN
         [map |-> [map EXCEPT ![unit_id] = Some(a)],
          heap |-> [heap EXCEPT ![a] = [strong |-> 1, value |-> Some(unit_context)]],
          result |-> "Ok"]
    ELSE LET heap2 == Arc_new(heap, unit_context) IN
         [map |-> [map EXCEPT ![unit_id] = Some(Len(heap2))],
          heap |-> heap2, result |-> "Ok"]

\* DashMap::insert in place of the entry check, replacing a record that is
\* there: what C27 must tell apart.
insert_unit_overwrites(map, heap, unit_id, unit_context) ==
    LET heap1 == IF map[unit_id] # None THEN Arc_drop(heap, map[unit_id][1]) ELSE heap
        heap2 == Arc_new(heap1, unit_context)
    IN [map |-> [map EXCEPT ![unit_id] = Some(Len(heap2))],
        heap |-> heap2, result |-> "Ok"]

insert_unit(map, heap, unit_id, unit_context) ==
    IF map[unit_id] # None
    THEN [map |-> map, heap |-> heap, result |-> "UnitAlreadyPresent"]
    ELSE LET heap2 == Arc_new(heap, unit_context) IN
         [map |-> [map EXCEPT ![unit_id] = Some(Len(heap2))],
          heap |-> heap2, result |-> "Ok"]

\* A remove that keeps the entry's Arc alive: what C5 must tell apart.
remove_unit_keeps_arc(map, heap, unit_id) ==
    IF map[unit_id] # None
    THEN [map |-> [map EXCEPT ![unit_id] = None], heap |-> heap, result |-> "Ok"]
    ELSE [map |-> map, heap |-> heap, result |-> "UnitNotFound"]

\* DashMap::remove hands back the entry, whose Arc is dropped on return.
remove_unit(map, heap, unit_id) ==
    IF map[unit_id] # None
    THEN [map |-> [map EXCEPT ![unit_id] = None],
          heap |-> Arc_drop(heap, map[unit_id][1]), result |-> "Ok"]
    ELSE [map |-> map, heap |-> heap, result |-> "UnitNotFound"]

\* Arc::downgrade under the entry's read lock.
get_unit(map, unit_id) ==
    IF map[unit_id] # None
    THEN [result |-> "Ok", unit_ref |-> Some(UnitRef_new(unit_id, map[unit_id][1]))]
    ELSE [result |-> "UnitNotFound", unit_ref |-> None]

\* The closures the callers pass to view, by name and argument.
ViewFns ==
    [fn : {"enqueue_command"}, arg : Commands]
        \cup [fn : {"update_telemetry"}, arg : Positions]
        \cup [fn : {"poll_command", "poll_telemetry"}, arg : {0}]

\* The closures of the command path alone.
CommandViewFns == {f \in ViewFns : f.fn \in {"enqueue_command", "poll_command"}}

CallViewFn(view_fn, ctx) ==
    CASE view_fn.fn = "enqueue_command" -> enqueue_command(ctx, view_fn.arg)
      [] view_fn.fn = "poll_command" -> poll_command(ctx)
      [] view_fn.fn = "update_telemetry" -> update_telemetry(ctx, view_fn.arg)
      [] view_fn.fn = "poll_telemetry" -> poll_telemetry(ctx)

\* The three steps of UnitRef::view: Weak::upgrade, the closure on the
\* upgraded context, the drop of the temporary Arc.
view_upgrade(heap, unit_ref) == upgrade(heap, unit_ref.weak_unit_context)

view_call(heap, a, view_fn) ==
    LET r == CallViewFn(view_fn, heap[a].value[1]) IN
    [heap |-> [heap EXCEPT ![a].value = Some(r.ctx)], output |-> r.output]

view_drop(heap, a) == Arc_drop(heap, a)

\* UnitRef::view run without interruption. calls counts the runs of view_fn.
view(heap, unit_ref, view_fn) ==
    LET up == view_upgrade(heap, unit_ref) IN
    IF up.arc = None
    THEN [heap |-> heap, result |-> "UnitViewInvalid", output |-> None, calls |-> 0]
    ELSE LET r == view_call(up.heap, up.arc[1], view_fn) IN
         [heap |-> view_drop(r.heap, up.arc[1]),
          result |-> "Ok", output |-> r.output, calls |-> 1]

\* ------------------------------------------ the controller's main loop
\* The tasks spawned for an admitted announcement. Each task owns a copy of
\* the unit id; the reader also owns the announced broadcast. session_id is
\* not held by the task: it tells the tasks of two admissions apart.
spawn_tasks(unit_id, session_id, broadcast) ==
    {[kind |-> "telemetry_reader", unit_id |-> unit_id, session_id |-> session_id,
      broadcast |-> Some(broadcast), pc |-> "check"],
     [kind |-> "command_writer", unit_id |-> unit_id, session_id |-> session_id,
      broadcast |-> None, pc |-> "create"],
     [kind |-> "command_generator", unit_id |-> unit_id, session_id |-> session_id,
      broadcast |-> None, pc |-> "loop"]}

\* An announcement arm that creates the session without looking for the
\* unit: what C40 must tell apart.
announced_broadcast_session_only(map, heap, sess, n, unit_id) ==
    LET cr == create_session(sess, unit_id, n) IN
    [entity_map |-> map, heap |-> heap, sessions |-> cr.map,
     result |-> cr.result, session_id |-> cr.session_id,
     spawn |-> cr.result = "Ok"]

\* Some((path, Some(broadcast))): insert the unit if get_unit fails, else
\* reuse it; then create the session. spawn says whether the tasks start.
announced_broadcast(map, heap, sess, n, unit_id) ==
    LET ins == IF get_unit(map, unit_id).result # "Ok"
               THEN insert_unit(map, heap, unit_id, UnitContext_new)
               ELSE [map |-> map, heap |-> heap, result |-> "Ok"]
    IN IF ins.result # "Ok"
       THEN [entity_map |-> map, heap |-> heap, sessions |-> sess,
             result |-> ins.result, session_id |-> None, spawn |-> FALSE]
       ELSE LET cr == create_session(sess, unit_id, n) IN
            [entity_map |-> ins.map, heap |-> ins.heap, sessions |-> cr.map,
             result |-> cr.result, session_id |-> cr.session_id,
             spawn |-> cr.result = "Ok"]

\* A departure handler that removes the unit too: what C8 must tell apart.
announced_departure_removes_unit(map, heap, sess, unit_id) ==
    LET rm == remove_session(sess, unit_id)
        ru == remove_unit(map, heap, unit_id)
    IN [entity_map |-> ru.map, heap |-> ru.heap, sessions |-> rm.map,
        result |-> rm.result, session |-> rm.session]

\* Some((path, None)): remove_session, and nothing else.
announced_departure(map, heap, sess, unit_id) ==
    LET rm == remove_session(sess, unit_id) IN
    [entity_map |-> map, heap |-> heap, sessions |-> rm.map,
     result |-> rm.result, session |-> rm.session]

\* ------------------------------------------- the gRPC DroneSession call
\* What inbound.next() can give first: None, Some(Err), or a message whose
\* payload is a command or a position naming the drone.
FirstMessages ==
    [tag : {"None", "Err", "Command"}]
        \cup [tag : {"Position"}, drone_id : DroneIds, pos : Positions]

\* The drone id is taken from the first message, or the call fails.
first_message(msg) ==
    CASE msg.tag = "None" -> [status |-> Some("invalid_argument"), drone_id |-> None,
                              pos |-> None]
      [] msg.tag = "Err" -> [status |-> Some("internal"), drone_id |-> None,
                             pos |-> None]
      [] msg.tag = "Position" -> [status |-> None, drone_id |-> Some(msg.drone_id),
                                  pos |-> Some(msg.pos)]
      [] OTHER -> [status |-> Some("invalid_argument"), drone_id |-> None,
                   pos |-> None]

\* A call that carries on when create_session fails: what C2 must tell apart.
admit_despite_error(sess, unit_id, n) ==
    LET cr == create_session(sess, unit_id, n) IN
    [sessions |-> cr.map, result |-> cr.result, session_id |-> cr.session_id,
     status |-> None]

\* create_session, and Status::already_exists when it fails.
admit(sess, unit_id, n) ==
    LET cr == create_session(sess, unit_id, n) IN
    [sessions |-> cr.map, result |-> cr.result, session_id |-> cr.session_id,
     status |-> IF cr.result = "Ok" THEN None ELSE Some("already_exists")]

\* A telemetry task that returns without the cleanup: what C4 must tell apart.
cleanup_on_disconnect_skipped(sess, unit_id) ==
    [map |-> sess, result |-> "SessionNotFound", session |-> None]

\* The telemetry task's last statement: remove_session, result ignored.
cleanup_on_disconnect(sess, unit_id) == remove_session(sess, unit_id)

\* ----------------------------------------------------------- RpcClient
\* A string is modelled by its "/"-separated segments: format!("{}/{}", a, b)
\* is the concatenation of the segments of a and of b.
RpcClientConfig_builder ==
    [client_id |-> <<"drone-1">>,
     client_prefix |-> Some(<<"drone">>),
     server_prefix |-> Some(<<"server">>)]

grpc_path == <<"drone.EchoService", "Echo">>

\* client_path with a default prefix
client_path_default_prefix(config, path) ==
    IF config.client_prefix # None
    THEN config.client_prefix[1] \o config.client_id \o path
    ELSE <<"client">> \o config.client_id \o path

\* client_path with the client id left out
client_path_no_client_id(config, path) ==
    IF config.client_prefix # None
    THEN config.client_prefix[1] \o path
    ELSE path

\* RpcClientConfig::client_path
client_path(config, path) ==
    IF config.client_prefix # None
    THEN config.client_prefix[1] \o config.client_id \o path
    ELSE config.client_id \o path

\* RpcClientConfig::server_path
server_path(config, path) ==
    IF config.server_prefix # None
    THEN config.server_prefix[1] \o config.client_id \o path
    ELSE config.client_id \o path

\* The paths an announcement on the client's consumer can carry: the response
\* path, the client's own request path, another client's response path.
AnnouncedPaths ==
    {server_path(RpcClientConfig_builder, grpc_path),
     client_path(RpcClientConfig_builder, grpc_path),
     <<"server", "drone-2">> \o grpc_path}

\* What OriginConsumer::announced returns: None at the end of the stream, or
\* Some((path, Option<BroadcastConsumer>)).
AnnouncedItems ==
    {None} \cup {Some([path |-> p, broadcast |-> b]) :
                    p \in AnnouncedPaths, b \in {None, Some("consumer")}}

\* The two tracks of a call before any frame: what the client's sender half
\* has sent, the frames written to the request track and not yet read by the
\* handler, the frames written to the response track and not yet read by the
\* client, and what the client's receiver half has yielded.
tracks_new == [sent |-> <<>>, outbound |-> <<>>, inbound |-> <<>>,
               received |-> <<>>]

\* RpcClient::connect before any step
connect_new == [pc |-> "idle", broadcast |-> None, result |-> None,
                connection |-> None]

\* A match that takes any departure for the server's: what C13 must tell apart.
wait_for_server_match_any_departure(item, path) ==
    IF item = None THEN "ConnectionClosed"
    ELSE IF item[1].path = path /\ item[1].broadcast # None THEN "Ok"
    ELSE IF item[1].broadcast = None THEN "ServerNotFound"
    ELSE "continue"

\* A match that keeps waiting at the end of the stream: what C14 must tell apart.
wait_for_server_match_end_continues(item, path) ==
    IF item = None THEN "continue"
    ELSE IF item[1].path = path /\ item[1].broadcast # None THEN "Ok"
    ELSE IF item[1].path = path /\ item[1].broadcast = None THEN "ServerNotFound"
    ELSE "continue"

\* The match of wait_for_server's loop on what announced() returned.
wait_for_server_match(item, path) ==
    IF item = None THEN "ConnectionClosed"
    ELSE IF item[1].path = path /\ item[1].broadcast # None THEN "Ok"
    ELSE IF item[1].path = path /\ item[1].broadcast = None THEN "ServerNotFound"
    ELSE "continue"

\* An error return that leaves the broadcast published: what C15 must tell apart.
connect_err_keeps_broadcast(call, pub, e) ==
    [call |-> [call EXCEPT !.pc = "returned", !.result = Some(e)],
     published |-> pub]

\* `?` on an Err in connect: the error is returned and connect's locals,
\* the BroadcastProducer among them, are dropped.
connect_err(call, pub, e) ==
    [call |-> [call EXCEPT !.pc = "returned", !.broadcast = None,
                           !.result = Some(e)],
     published |-> IF call.broadcast = None THEN pub
                   ELSE pub \ {call.broadcast[1]}]

\* connect's Ok return: the broadcast is moved into the RpcConnection.
connect_ok(call, pub, server_broadcast) ==
    [call |-> [call EXCEPT !.pc = "returned", !.broadcast = None,
                           !.result = Some("Ok"),
                           !.connection = Some([broadcast |-> call.broadcast[1],
                                                inbound |-> server_broadcast])],
     published |-> pub]

\* ----------------------------------------------------------- RpcRouter
\* RpcRouterConfig of a router listening under "drone", answering under "server"
RpcRouterConfig_builder ==
    [client_prefix |-> Some(<<"drone">>), response_prefix |-> Some(<<"server">>)]

\* RpcRouter::new
RpcRouter_new == [handlers |-> {}, pc |-> "new", result |-> None, handled |-> 0]

\* The call names handlers are registered under and the connectors they wrap.
CallNames == {grpc_path, <<"drone.OtherService", "Call">>}

Connectors == {"connector-1", "connector-2"}

\* HashMap::get on the handlers: the handler registered under the name, if any.
handlers_get(handlers, name) ==
    IF \E h \in handlers : h.name = name
    THEN Some((CHOOSE h \in handlers : h.name = name).connector)
    ELSE None

\* RpcRouter::has_handler: HashMap::contains_key
has_handler(r, name) == \E h \in r.handlers : h.name = name

\* A register that keeps the handler already there (entry().or_insert): what
\* C25 must tell apart.
register_keeps_first(r, name, connector) ==
    IF has_handler(r, name) THEN r
    ELSE [r EXCEPT !.handlers = @ \cup {[name |-> name, connector |-> connector]}]

\* RpcRouter::register: HashMap::insert of the handler under the call name,
\* replacing the one that was there; always Ok.
register(r, name, connector) ==
    [r EXCEPT !.handlers = {h \in @ : h.name # name}
                            \cup {[name |-> name, connector |-> connector]}]

\* The paths, relative to the router's prefix, an announcement can carry: a
\* registered call, a call nobody registered, a path with no call name.
RouterPaths ==
    {<<"drone-1">> \o grpc_path, <<"drone-1", "drone.OtherService", "Call">>,
     <<"drone-1">>}

\* What announced() returns to run's loop.
RouterItems ==
    {None} \cup {Some([path |-> p, broadcast |-> b]) :
                    p \in RouterPaths, b \in {None, Some("consumer")}}

\* RpcRequestPath::parse: the first component is the client id, the rest the
\* call name; PathParse with fewer than two components.
RpcRequestPath_parse(path) ==
    IF Len(path) < 2
    THEN [ok |-> FALSE, client_id |-> <<>>, grpc_path |-> <<>>]
    ELSE [ok |-> TRUE, client_id |-> <<Head(path)>>, grpc_path |-> Tail(path)]

\* SessionKey::new
SessionKey_new(client_id, name) == [client_id |-> client_id, grpc_path |-> name]

\* SessionMap::try_create: atomic test-and-insert, the guard on Ok
try_create(map, key) ==
    IF key \in map
    THEN [map |-> map, result |-> "SessionAlreadyActive"]
    ELSE [map |-> map \cup {key}, result |-> "Ok"]

\* SessionMap::has_active
has_active(map, key) == key \in map

\* Drop of a SessionGuard: the key is removed from the map
SessionGuard_drop(map, key) == map \ {key}

\* RpcRouterConfig::client_prefix(): the prefix run listens under, "client"
\* when none is configured
client_prefix(config) ==
    IF config.client_prefix # None THEN config.client_prefix[1] ELSE <<"client">>

\* RpcRouterConfig::response_prefix(): the prefix of the response paths,
\* "server" when none is configured
response_prefix(config) ==
    IF config.response_prefix # None
    THEN config.response_prefix[1]
    ELSE <<"server">>

\* RpcRouterConfig::response_path
RpcRouterConfig_response_path(config, client_id, path) ==
    IF config.response_prefix # None
    THEN config.response_prefix[1] \o client_id \o path
    ELSE client_id \o path

\* OriginConsumer::with_root(prefix): the announcements under the prefix, by
\* their paths relative to it; None for a path that is not under it.
with_root(prefix, path) ==
    IF Len(prefix) <= Len(path) /\ SubSeq(path, 1, Len(prefix)) = prefix
    THEN Some(SubSeq(path, Len(prefix) + 1, Len(path)))
    ELSE None

\* parse_request_path(prefix, path): the path is taken relative to the prefix
\* and split into the client id and the call name.
parse_request_path(prefix, path) ==
    IF with_root(prefix, path) = None
    THEN [ok |-> FALSE, client_id |-> <<>>, grpc_path |-> <<>>]
    ELSE RpcRequestPath_parse(with_root(prefix, path)[1])

\* A response path without the prefix: what C21 must tell apart.
response_path_unprefixed(config, client_id, name) == client_id \o name

\* The response path handle_announcement formats
response_path(config, client_id, name) ==
    response_prefix(config) \o client_id \o name

\* ErasedHandler::spawn_handler: a task that owns the ConnectionGuard, that is
\* the session guard and the response broadcast, until it terminates.
spawn_handler(handler, key, path) ==
    [handler |-> handler, key |-> key, response_path |-> path, pc |-> "running",
     session_guard |-> TRUE, response_broadcast |-> TRUE]

\* What the router acts on: the session map, the response broadcasts (named by
\* the task that owns them), the tasks.
RouterState(sess, resp, tsks) ==
    [sessions |-> sess, responses |-> resp, tasks |-> tsks, result |-> "Ok"]

\* handle_announcement creating the response broadcast before the session is
\* admitted: what C16 must tell apart.
handle_announcement_creates_first(s, path, created) ==
    LET request_path == RpcRequestPath_parse(path)
        key == SessionKey_new(request_path.client_id, request_path.grpc_path)
        admitted == try_create(s.sessions, key)
        id == Len(s.tasks) + 1
        handler == handlers_get(router.handlers, request_path.grpc_path)
    IN IF ~request_path.ok THEN [s EXCEPT !.result = "PathParse"]
       ELSE IF handler = None
       THEN [s EXCEPT !.result = "NoHandler"]
       ELSE IF ~created THEN [s EXCEPT !.result = "BroadcastCreate"]
       ELSE IF admitted.result # "Ok"
       THEN [s EXCEPT !.responses = @ \cup {id}, !.result = admitted.result]
       ELSE [sessions |-> admitted.map,
             responses |-> s.responses \cup {id},
             tasks |-> Append(s.tasks, spawn_handler(handler, key,
                          response_path(RpcRouterConfig_builder,
                                        request_path.client_id,
                                        request_path.grpc_path))),
             result |-> "Ok"]

\* handle_announcement without the handler lookup: what C17 must tell apart.
handle_announcement_any_handler(s, path, created) ==
    LET request_path == RpcRequestPath_parse(path)
        key == SessionKey_new(request_path.client_id, request_path.grpc_path)
        admitted == try_create(s.sessions, key)
        id == Len(s.tasks) + 1
        handler == handlers_get(router.handlers, request_path.grpc_path)
    IN IF ~request_path.ok THEN [s EXCEPT !.result = "PathParse"]
       ELSE IF admitted.result # "Ok" THEN [s EXCEPT !.result = admitted.result]
       ELSE IF ~created
       THEN [s EXCEPT !.sessions = SessionGuard_drop(admitted.map, key),
                      !.result = "BroadcastCreate"]
       ELSE [sessions |-> admitted.map,
             responses |-> s.responses \cup {id},
             tasks |-> Append(s.tasks, spawn_handler(handler, key,
                          response_path(RpcRouterConfig_builder,
                                        request_path.client_id,
                                        request_path.grpc_path))),
             result |-> "Ok"]

\* handle_announcement keeping the session when create_broadcast fails: what
\* C20 must tell apart.
handle_announcement_leaks_guard(s, path, created) ==
    LET request_path == RpcRequestPath_parse(path)
        key == SessionKey_new(request_path.client_id, request_path.grpc_path)
        admitted == try_create(s.sessions, key)
        id == Len(s.tasks) + 1
        handler == handlers_get(router.handlers, request_path.grpc_path)
    IN IF ~request_path.ok THEN [s EXCEPT !.result = "PathParse"]
       ELSE IF handler = None
       THEN [s EXCEPT !.result = "NoHandler"]
       ELSE IF admitted.result # "Ok" THEN [s EXCEPT !.result = admitted.result]
       ELSE IF ~created
       THEN [s EXCEPT !.sessions = admitted.map, !.result = "BroadcastCreate"]
       ELSE [sessions |-> admitted.map,
             responses |-> s.responses \cup {id},
             tasks |-> Append(s.tasks, spawn_handler(handler, key,
                          response_path(RpcRouterConfig_builder,
                                        request_path.client_id,
                                        request_path.grpc_path))),
             result |-> "Ok"]

\* RpcRouter::handle_announcement: parse, handler lookup, try_create,
\* create_broadcast (which the producer may refuse: `?` then drops the session
\* guard), spawn_handler with the ConnectionGuard.
handle_announcement(s, path, created) ==
    LET request_path == RpcRequestPath_parse(path)
        key == SessionKey_new(request_path.client_id, request_path.grpc_path)
        admitted == try_create(s.sessions, key)
        id == Len(s.tasks) + 1
        handler == handlers_get(router.handlers, request_path.grpc_path)
    IN IF ~request_path.ok THEN [s EXCEPT !.result = "PathParse"]
       ELSE IF handler = None
       THEN [s EXCEPT !.result = "NoHandler"]
       ELSE IF admitted.result # "Ok" THEN [s EXCEPT !.result = admitted.result]
       ELSE IF ~created
       THEN [s EXCEPT !.sessions = SessionGuard_drop(admitted.map, key),
                      !.result = "BroadcastCreate"]
       ELSE [sessions |-> admitted.map,
             responses |-> s.responses \cup {id},
             tasks |-> Append(s.tasks, spawn_handler(handler, key,
                          response_path(RpcRouterConfig_builder,
                                        request_path.client_id,
                                        request_path.grpc_path))),
             result |-> "Ok"]

\* A departure arm that releases the departed client's session: what C31
\* must tell apart.
run_departure_releases(s, path) ==
    LET request_path == RpcRequestPath_parse(path) IN
    [s EXCEPT !.sessions =
        SessionGuard_drop(@, SessionKey_new(request_path.client_id,
                                            request_path.grpc_path))]

\* The departure arm of run's match, Some((path, None)): the path is logged.
run_departure(s, path) == s

\* A loop that returns the first error of handle_announcement: what C18 must
\* tell apart.
run_loop_returns_err(item, handled) ==
    IF item = None THEN [pc |-> "returned", result |-> Some("Ok")]
    ELSE IF item[1].broadcast # None /\ handled # "Ok"
    THEN [pc |-> "returned", result |-> Some(handled)]
    ELSE [pc |-> "listening", result |-> None]

\* One turn of run's loop after the arm has run: break and Ok(()) at the end
\* of the stream; an error of handle_announcement is logged, a departure is
\* logged, and the loop goes on.
run_loop(item, handled) ==
    IF item = None THEN [pc |-> "returned", result |-> Some("Ok")]
    ELSE [pc |-> "listening", result |-> None]

\* ---------------------------------------------------------------- Init
InitMachines ==
    /\ command_machine = CommandQueueMachine_new
    /\ telemetry_machine = TelemetryMachine_new
    /\ echo_machine = EchoMachine_new
    /\ unit_ctx = UnitContext_shared
    /\ history = <<>>

InitSessions ==
    /\ sessions = DroneSessionMap_new
    /\ uuids = 0
    /\ holders = {}
    /\ released = {}

InitUnits ==
    /\ entity_map = UnitMap_new
    /\ arcs = <<>>
    /\ refs = [t \in Tasks |-> None]
    /\ removed = {}
    /\ viewing = [t \in Tasks |-> [pc |-> "idle", arc |-> None, view_fn |-> None]]

InitController ==
    /\ broadcasts = 0
    /\ present = {}
    /\ tasks = {}

\* No DroneSession call has been received.
InitGrpc == calls = <<>>

\* No connect call has been made.
InitClient ==
    /\ connect_call = connect_new
    /\ announcements = <<>>
    /\ elapsed = 0
    /\ published = {}
    /\ tracks = tracks_new
    /\ consumer = <<>>

\* A router with the echo handler registered, before run.
InitRouter ==
    /\ router = register(RpcRouter_new, grpc_path, "connector-1")
    /\ rpc_sessions = {}
    /\ responses = {}
    /\ handler_tasks = <<>>

Init ==
    /\ InitMachines
    /\ InitSessions
    /\ InitUnits
    /\ InitController
    /\ InitGrpc
    /\ InitClient
    /\ InitRouter
    /\ last = [op |-> "new"]

\* ------------------------------------------ calls on the session registry
\* What a create_session call does to the registry and to the record of who
\* holds a session.
DoCreateSession(unit_id) ==
    LET r == create_session(sessions, unit_id, uuids) IN
    /\ sessions' = r.map
    /\ uuids' = IF r.result = "Ok" THEN uuids + 1 ELSE uuids
    /\ holders' = IF r.result = "Ok"
                  THEN holders \cup {[session_id |-> r.session_id[1], unit_id |-> unit_id]}
                  ELSE holders
    /\ UNCHANGED released
    /\ last' = [op |-> "create_session", unit_id |-> unit_id,
                result |-> r.result, session_id |-> r.session_id]

DoRemoveSession(unit_id) ==
    LET r == remove_session(sessions, unit_id) IN
    /\ sessions' = r.map
    /\ holders' = IF r.result = "Ok" THEN holders \ {r.session[1]} ELSE holders
    /\ released' = IF r.result = "Ok" THEN released \cup {r.session[1]} ELSE released
    /\ UNCHANGED uuids
    /\ last' = [op |-> "remove_session", unit_id |-> unit_id,
                result |-> r.result, session |-> r.session]

CreateSession ==
    /\ uuids < MaxUuids
    /\ \E unit_id \in UnitIds : DoCreateSession(unit_id)
    /\ UNCHANGED <<varsMachines, varsRpc, varsUnits, varsController, varsGrpc>>

RemoveSession ==
    /\ \E unit_id \in UnitIds : DoRemoveSession(unit_id)
    /\ UNCHANGED <<varsMachines, varsRpc, varsUnits, varsController, varsGrpc>>

HasActiveSession ==
    /\ \E unit_id \in UnitIds :
        last' = [op |-> "has_active_session", unit_id |-> unit_id,
                 result |-> has_active_session(sessions, unit_id)]
    /\ UNCHANGED <<varsMachines, varsRpc, varsSessions, varsUnits, varsController, varsGrpc>>

NextSess == CreateSession \/ RemoveSession \/ HasActiveSession

SpecSess == Init /\ [][NextSess]_vars

\* ------------------------------- calls on the entity registry, in sequence
DoInsertUnit(unit_id, unit_context) ==
    LET r == insert_unit(entity_map, arcs, unit_id, unit_context) IN
    /\ entity_map' = r.map
    /\ arcs' = r.heap
    /\ UNCHANGED <<refs, removed, viewing>>
    /\ last' = [op |-> "insert_unit", unit_id |-> unit_id, result |-> r.result]

DoRemoveUnit(unit_id) ==
    LET r == remove_unit(entity_map, arcs, unit_id) IN
    /\ entity_map' = r.map
    /\ arcs' = r.heap
    /\ removed' = IF r.result = "Ok" THEN removed \cup {entity_map[unit_id][1]} ELSE removed
    /\ UNCHANGED <<refs, viewing>>
    /\ last' = [op |-> "remove_unit", unit_id |-> unit_id, result |-> r.result]

InsertUnit ==
    /\ Len(arcs) < MaxAllocs
    /\ \E unit_id \in UnitIds : DoInsertUnit(unit_id, UnitContext_new)
    /\ UNCHANGED <<varsMachines, varsRpc, varsSessions, varsController, varsGrpc>>

RemoveUnit ==
    /\ \E unit_id \in UnitIds : DoRemoveUnit(unit_id)
    /\ UNCHANGED <<varsMachines, varsRpc, varsSessions, varsController, varsGrpc>>

\* A task calls get_unit and keeps the reference it is given.
GetUnit ==
    /\ \E t \in Tasks, unit_id \in UnitIds :
        LET r == get_unit(entity_map, unit_id) IN
        /\ refs' = IF r.result = "Ok" THEN [refs EXCEPT ![t] = r.unit_ref] ELSE refs
        /\ last' = [op |-> "get_unit", unit_id |-> unit_id, result |-> r.result]
    /\ UNCHANGED <<varsMachines, varsRpc, varsSessions, varsController, varsGrpc, entity_map, arcs, removed, viewing>>

\* The callers' own limit on what they enqueue.
MayCall(heap, unit_ref, view_fn) ==
    LET value == heap[unit_ref.weak_unit_context].value IN
    IF view_fn.fn = "enqueue_command" /\ value # None
    THEN pending_count(value[1].command_machine) < MaxPending
    ELSE TRUE

\* A task calls view on the reference it holds; no other call overlaps it.
View ==
    /\ \E t \in Tasks, view_fn \in CommandViewFns :
        /\ refs[t] # None
        /\ MayCall(arcs, refs[t][1], view_fn)
        /\ LET r == view(arcs, refs[t][1], view_fn) IN
            /\ arcs' = r.heap
            /\ last' = [op |-> "view", unit_ref |-> refs[t][1],
                        result |-> r.result, output |-> r.output, calls |-> r.calls]
    /\ UNCHANGED <<varsMachines, varsRpc, varsSessions, varsController, varsGrpc, entity_map, refs, removed, viewing>>

NextUnit == InsertUnit \/ RemoveUnit \/ GetUnit \/ View

SpecUnit == Init /\ [][NextUnit]_vars

\* ------------------------- calls on the entity registry, by concurrent tasks
\* A task enters view: Weak::upgrade succeeds and the task holds the temporary
\* Arc, or fails and view returns UnitViewInvalid.
ViewUpgrade ==
    /\ \E t \in Tasks, view_fn \in CommandViewFns :
        /\ viewing[t].pc = "idle"
        /\ refs[t] # None
        /\ MayCall(arcs, refs[t][1], view_fn)
        /\ LET up == view_upgrade(arcs, refs[t][1]) IN
            /\ arcs' = up.heap
            /\ IF up.arc = None
               THEN /\ UNCHANGED viewing
                    /\ last' = [op |-> "view", unit_ref |-> refs[t][1],
                                result |-> "UnitViewInvalid", output |-> None,
                                calls |-> 0]
               ELSE /\ viewing' = [viewing EXCEPT ![t] =
                           [pc |-> "upgraded", arc |-> up.arc, view_fn |-> Some(view_fn)]]
                    /\ UNCHANGED last
    /\ UNCHANGED <<varsMachines, varsRpc, varsSessions, varsController, varsGrpc, entity_map, refs, removed>>

\* The closure runs on the upgraded context.
ViewCall ==
    /\ \E t \in Tasks :
        /\ viewing[t].pc = "upgraded"
        /\ LET r == view_call(arcs, viewing[t].arc[1], viewing[t].view_fn[1]) IN
            /\ arcs' = r.heap
            /\ viewing' = [viewing EXCEPT ![t].pc = "called"]
            /\ last' = [op |-> "view", unit_ref |-> refs[t][1],
                        result |-> "Ok", output |-> r.output, calls |-> 1]
    /\ UNCHANGED <<varsMachines, varsRpc, varsSessions, varsController, varsGrpc, entity_map, refs, removed>>

\* view returns: the temporary Arc is dropped.
ViewDrop ==
    /\ \E t \in Tasks :
        /\ viewing[t].pc = "called"
        /\ arcs' = view_drop(arcs, viewing[t].arc[1])
        /\ viewing' = [viewing EXCEPT ![t] =
               [pc |-> "idle", arc |-> None, view_fn |-> None]]
    /\ UNCHANGED <<varsMachines, varsRpc, varsSessions, varsController, varsGrpc, entity_map, refs, removed, last>>

\* get_unit by a task that is not inside a view call.
GetUnitIdle ==
    /\ \E t \in Tasks, unit_id \in UnitIds :
        /\ viewing[t].pc = "idle"
        /\ LET r == get_unit(entity_map, unit_id) IN
            /\ refs' = IF r.result = "Ok" THEN [refs EXCEPT ![t] = r.unit_ref] ELSE refs
            /\ last' = [op |-> "get_unit", unit_id |-> unit_id, result |-> r.result]
    /\ UNCHANGED <<varsMachines, varsRpc, varsSessions, varsController, varsGrpc, entity_map, arcs, removed, viewing>>

NextUnitConc ==
    InsertUnit \/ RemoveUnit \/ GetUnitIdle \/ ViewUpgrade \/ ViewCall \/ ViewDrop

SpecUnitConc == Init /\ [][NextUnitConc]_vars

\* ------------------------------------------------------- the controller
BroadcastIds == {b.id : b \in present}

Dropped(map, map2) ==
    {map[u][1] : u \in {x \in UnitIds : map[x] # None /\ map2[x] = None}}

\* A drone announces its broadcast and the loop handles the announcement.
CtlAnnounced ==
    /\ broadcasts < MaxBroadcasts
    /\ \E unit_id \in DroneIds :
        LET b == broadcasts + 1
            r == announced_broadcast(entity_map, arcs, sessions, uuids, unit_id)
        IN
        /\ broadcasts' = b
        /\ present' = present \cup {[id |-> b, unit_id |-> unit_id]}
        /\ entity_map' = r.entity_map
        /\ arcs' = r.heap
        /\ sessions' = r.sessions
        /\ uuids' = IF r.spawn THEN uuids + 1 ELSE uuids
        /\ holders' = IF r.spawn
                      THEN holders \cup {[session_id |-> r.session_id[1],
                                          unit_id |-> unit_id]}
                      ELSE holders
        /\ tasks' = IF r.spawn
                    THEN tasks \cup spawn_tasks(unit_id, r.session_id[1], b)
                    ELSE tasks
        /\ last' = [op |-> "announced", unit_id |-> unit_id, broadcast |-> TRUE,
                    result |-> r.result]
    /\ UNCHANGED <<varsMachines, varsRpc, varsGrpc, released, refs, removed, viewing>>

\* A drone's broadcast ends and the loop handles the departure announcement.
CtlDeparted ==
    /\ \E b \in present :
        LET r == announced_departure(entity_map, arcs, sessions, b.unit_id) IN
        /\ present' = present \ {b}
        /\ entity_map' = r.entity_map
        /\ arcs' = r.heap
        /\ removed' = removed \cup Dropped(entity_map, r.entity_map)
        /\ sessions' = r.sessions
        /\ holders' = IF r.result = "Ok" THEN holders \ {r.session[1]} ELSE holders
        /\ released' = IF r.result = "Ok" THEN released \cup {r.session[1]} ELSE released
        /\ last' = [op |-> "announced", unit_id |-> b.unit_id, broadcast |-> FALSE,
                    result |-> r.result]
    /\ UNCHANGED <<varsMachines, varsRpc, varsGrpc, uuids, refs, viewing, broadcasts, tasks>>

\* unit_map.get_unit(&unit_id) and then view(view_fn) on the reference.
get_unit_view(map, heap, unit_id, view_fn) ==
    LET found == get_unit(map, unit_id) IN
    IF found.result # "Ok"
    THEN [heap |-> heap, result |-> found.result, output |-> None, calls |-> 0]
    ELSE view(heap, found.unit_ref[1], view_fn)

Stop(t) == tasks' = tasks \ {t}

Goto(t, pc) == tasks' = (tasks \ {t}) \cup {[t EXCEPT !.pc = pc]}

\* The telemetry reader's check at the top of its loop.
ReaderCheck ==
    /\ \E t \in tasks :
        /\ t.kind = "telemetry_reader" /\ t.pc = "check"
        /\ IF has_active_session(sessions, t.unit_id)
           THEN Goto(t, "next_group")
           ELSE Stop(t)
    /\ UNCHANGED <<varsMachines, varsRpc, varsGrpc, varsSessions, varsUnits, broadcasts, present, last>>

\* track.next_group() gives a frame: the position goes into the unit.
ReaderFrame ==
    /\ \E t \in tasks, pos \in Positions :
        /\ t.kind = "telemetry_reader" /\ t.pc = "next_group"
        /\ t.broadcast[1] \in BroadcastIds
        /\ LET r == get_unit_view(entity_map, arcs, t.unit_id,
                                  [fn |-> "update_telemetry", arg |-> pos]) IN
            /\ arcs' = r.heap
            /\ last' = [op |-> "update_telemetry", unit_id |-> t.unit_id]
        /\ Goto(t, "check")
    /\ UNCHANGED <<varsMachines, varsRpc, varsGrpc, varsSessions, entity_map, refs, removed,
                   viewing, broadcasts, present>>

\* track.next_group() gives Ok(None) or Err: the broadcast is gone.
ReaderClosed ==
    /\ \E t \in tasks :
        /\ t.kind = "telemetry_reader" /\ t.pc = "next_group"
        /\ t.broadcast[1] \notin BroadcastIds
        /\ Stop(t)
    /\ UNCHANGED <<varsMachines, varsRpc, varsGrpc, varsSessions, varsUnits, broadcasts, present, last>>

\* producer.create_broadcast(&control_path): Some, or None and the task ends.
WriterCreate ==
    /\ \E t \in tasks, created \in BOOLEAN :
        /\ t.kind = "command_writer" /\ t.pc = "create"
        /\ IF created THEN Goto(t, "loop") ELSE Stop(t)
    /\ UNCHANGED <<varsMachines, varsRpc, varsGrpc, varsSessions, varsUnits, broadcasts, present, last>>

\* One turn of the command writer's loop.
WriterLoop ==
    /\ \E t \in tasks :
        /\ t.kind = "command_writer" /\ t.pc = "loop"
        /\ IF ~has_active_session(sessions, t.unit_id)
           THEN /\ Stop(t)
                /\ UNCHANGED <<arcs, last>>
           ELSE LET r == get_unit_view(entity_map, arcs, t.unit_id,
                                       [fn |-> "poll_command", arg |-> 0]) IN
                /\ arcs' = r.heap
                /\ last' = [op |-> "poll_command", unit_id |-> t.unit_id,
                            session_id |-> t.session_id]
                /\ UNCHANGED tasks
    /\ UNCHANGED <<varsMachines, varsRpc, varsGrpc, varsSessions, entity_map, refs, removed,
                   viewing, broadcasts, present>>

\* One turn of the command generator's loop.
GeneratorLoop ==
    /\ \E t \in tasks, cmd \in COMMANDS :
        /\ t.kind = "command_generator" /\ t.pc = "loop"
        /\ IF ~has_active_session(sessions, t.unit_id)
              \/ get_unit(entity_map, t.unit_id).result # "Ok"
           THEN /\ Stop(t)
                /\ UNCHANGED <<arcs, last>>
           ELSE LET unit_ref == get_unit(entity_map, t.unit_id).unit_ref[1]
                    view_fn == [fn |-> "enqueue_command", arg |-> cmd]
                    r == view(arcs, unit_ref, view_fn)
                IN
                /\ MayCall(arcs, unit_ref, view_fn)
                /\ arcs' = r.heap
                /\ last' = [op |-> "enqueue_command", unit_id |-> t.unit_id,
                            session_id |-> t.session_id]
                /\ IF r.result = "Ok" THEN UNCHANGED tasks ELSE Stop(t)
    /\ UNCHANGED <<varsMachines, varsRpc, varsGrpc, varsSessions, entity_map, refs, removed,
                   viewing, broadcasts, present>>

NextCtl ==
    \/ CtlAnnounced
    \/ CtlDeparted
    \/ ReaderCheck
    \/ ReaderFrame
    \/ ReaderClosed
    \/ WriterCreate
    \/ WriterLoop
    \/ GeneratorLoop

SpecCtl == Init /\ [][NextCtl]_vars

\* ------------------------------------------------------ the gRPC server
CallIds == 1..Len(calls)

Call_new ==
    [pc |-> "first_message", drone_id |-> None, pos |-> None, status |-> None,
     session_id |-> None, task |-> "none", stream |-> "none"]

Returned(c, status) == [calls EXCEPT ![c].pc = "returned", ![c].status = Some(status)]

\* tonic starts drone_session for a new call.
GrpcCall ==
    /\ Len(calls) < MaxCalls
    /\ calls' = Append(calls, Call_new)
    /\ UNCHANGED <<varsMachines, varsRpc, varsSessions, varsUnits, varsController, last>>

\* inbound.next().await gives the first message.
GrpcFirstMessage ==
    /\ \E c \in CallIds, msg \in FirstMessages :
        /\ calls[c].pc = "first_message"
        /\ LET r == first_message(msg) IN
           calls' = IF r.status # None
                    THEN Returned(c, r.status[1])
                    ELSE [calls EXCEPT ![c].pc = "get_unit",
                                       ![c].drone_id = r.drone_id,
                                       ![c].pos = r.pos]
    /\ UNCHANGED <<varsMachines, varsRpc, varsSessions, varsUnits, varsController, last>>

\* if self.unit_map.get_unit(&unit_id).is_err()
GrpcGetUnit ==
    /\ \E c \in CallIds :
        /\ calls[c].pc = "get_unit"
        /\ calls' = [calls EXCEPT ![c].pc =
                        IF get_unit(entity_map, calls[c].drone_id[1]).result # "Ok"
                        THEN "insert_unit"
                        ELSE "create_session"]
    /\ UNCHANGED <<varsMachines, varsRpc, varsSessions, varsUnits, varsController, last>>

\* insert_unit(unit_id, UnitContext::new()), Status::internal when it fails.
GrpcInsertUnit ==
    /\ \E c \in CallIds :
        /\ calls[c].pc = "insert_unit"
        /\ LET r == insert_unit(entity_map, arcs, calls[c].drone_id[1], UnitContext_new) IN
            /\ entity_map' = r.map
            /\ arcs' = r.heap
            /\ calls' = IF r.result = "Ok"
                        THEN [calls EXCEPT ![c].pc = "create_session"]
                        ELSE Returned(c, "internal")
    /\ UNCHANGED <<varsMachines, varsRpc, varsSessions, varsController, refs, removed, viewing, last>>

\* match self.session_map.create_session(&unit_id)
GrpcCreateSession ==
    /\ \E c \in CallIds :
        /\ calls[c].pc = "create_session"
        /\ LET unit_id == calls[c].drone_id[1]
               r == admit(sessions, unit_id, uuids)
           IN
            /\ sessions' = r.sessions
            /\ uuids' = IF r.result = "Ok" THEN uuids + 1 ELSE uuids
            /\ holders' = IF r.result = "Ok"
                          THEN holders \cup {[session_id |-> r.session_id[1],
                                              unit_id |-> unit_id]}
                          ELSE holders
            /\ calls' = IF r.status # None
                        THEN Returned(c, r.status[1])
                        ELSE [calls EXCEPT ![c].pc = "admitted",
                                           ![c].session_id = r.session_id]
    /\ UNCHANGED <<varsMachines, varsRpc, varsUnits, varsController, released, last>>

\* The rest of the call: the first position is processed, the telemetry task
\* is spawned and the outbound stream is returned.
GrpcSpawn ==
    /\ \E c \in CallIds :
        /\ calls[c].pc = "admitted"
        /\ arcs' = get_unit_view(entity_map, arcs, calls[c].drone_id[1],
                                 [fn |-> "update_telemetry", arg |-> calls[c].pos[1]]).heap
        /\ calls' = [calls EXCEPT ![c].pc = "returned", ![c].status = Some("Ok"),
                                  ![c].pos = None,
                                  ![c].task = "running", ![c].stream = "open"]
    /\ UNCHANGED <<varsMachines, varsRpc, varsSessions, varsController, entity_map, refs,
                   removed, viewing, last>>

\* The telemetry task receives a position.
TaskPosition ==
    /\ \E c \in CallIds, pos \in Positions :
        /\ calls[c].task = "running"
        /\ arcs' = get_unit_view(entity_map, arcs, calls[c].drone_id[1],
                                 [fn |-> "update_telemetry", arg |-> pos]).heap
    /\ UNCHANGED <<varsMachines, varsRpc, varsSessions, varsController, varsGrpc, entity_map,
                   refs, removed, viewing, last>>

\* inbound.next() gives None or an error: the task leaves its loop.
TaskInboundEnd ==
    /\ \E c \in CallIds :
        /\ calls[c].task = "running"
        /\ calls' = [calls EXCEPT ![c].task = "cleanup"]
    /\ UNCHANGED <<varsMachines, varsRpc, varsSessions, varsUnits, varsController, last>>

\* The telemetry task removes the session and ends.
TaskCleanup ==
    /\ \E c \in CallIds :
        /\ calls[c].task = "cleanup"
        /\ LET r == cleanup_on_disconnect(sessions, calls[c].drone_id[1]) IN
            /\ sessions' = r.map
            /\ holders' = IF r.result = "Ok" THEN holders \ {r.session[1]} ELSE holders
            /\ released' = IF r.result = "Ok" THEN released \cup {r.session[1]}
                           ELSE released
        /\ calls' = [calls EXCEPT ![c].task = "done"]
    /\ UNCHANGED <<varsMachines, varsRpc, varsUnits, varsController, uuids, last>>

\* One turn of the outbound stream's loop.
StreamPoll ==
    /\ \E c \in CallIds :
        /\ calls[c].stream = "open"
        /\ IF ~has_active_session(sessions, calls[c].drone_id[1])
           THEN /\ calls' = [calls EXCEPT ![c].stream = "ended"]
                /\ UNCHANGED arcs
           ELSE /\ arcs' = get_unit_view(entity_map, arcs, calls[c].drone_id[1],
                                         [fn |-> "poll_command", arg |-> 0]).heap
                /\ UNCHANGED calls
    /\ UNCHANGED <<varsMachines, varsRpc, varsSessions, varsController, entity_map, refs,
                   removed, viewing, last>>

NextGrpc ==
    \/ GrpcCall
    \/ GrpcFirstMessage
    \/ GrpcGetUnit
    \/ GrpcInsertUnit
    \/ GrpcCreateSession
    \/ GrpcSpawn
    \/ TaskPosition
    \/ TaskInboundEnd
    \/ TaskCleanup
    \/ StreamPoll

SpecGrpc == Init /\ [][NextGrpc]_vars

\* The runtime keeps polling a spawned task that can make progress.
SpecGrpcFair == SpecGrpc /\ WF_vars(TaskCleanup)

\* ------------------------------------------- driving a machine directly
Calls(h, op) == SelectSeq(h, LAMBDA e : e.op = op)

\* machine.process_input(CommandInput::Enqueue(cmd))
CmdProcessInput ==
    /\ Len(Calls(history, "process_input")) < MaxEnqueues
    /\ \E cmd \in Commands :
        /\ command_machine' = CommandQueueMachine_process_input(
                                  command_machine, [tag |-> "Enqueue", cmd |-> cmd])
        /\ history' = Append(history, [op |-> "process_input", val |-> Some(cmd)])
    /\ UNCHANGED <<varsRpc, telemetry_machine, echo_machine, unit_ctx, varsSessions, varsUnits, varsController, varsGrpc, last>>

\* machine.poll_output()
CmdPollOutput ==
    /\ Len(Calls(history, "poll_output")) < MaxPolls
    /\ LET r == CommandQueueMachine_poll_output(command_machine) IN
        /\ command_machine' = r.machine
        /\ history' = Append(history, [op |-> "poll_output", val |-> r.output])
    /\ UNCHANGED <<varsRpc, telemetry_machine, echo_machine, unit_ctx, varsSessions, varsUnits, varsController, varsGrpc, last>>

NextCmd == CmdProcessInput \/ CmdPollOutput

SpecCmd == Init /\ [][NextCmd]_vars

\* machine.process_input(TelemetryInput::Position(pos))
TelProcessInput ==
    /\ Len(history) < MaxTelemetryCalls
    /\ \E pos \in Positions :
        /\ telemetry_machine' = TelemetryMachine_process_input(
                                    telemetry_machine, [tag |-> "Position", pos |-> pos])
        /\ history' = Append(history, [op |-> "process_input", val |-> Some(pos)])
    /\ UNCHANGED <<varsRpc, command_machine, echo_machine, unit_ctx, varsSessions, varsUnits, varsController, varsGrpc, last>>

\* machine.poll_output()
TelPollOutput ==
    /\ Len(history) < MaxTelemetryCalls
    /\ LET r == TelemetryMachine_poll_output(telemetry_machine) IN
        /\ telemetry_machine' = r.machine
        /\ history' = Append(history, [op |-> "poll_output", val |-> r.output])
    /\ UNCHANGED <<varsRpc, command_machine, echo_machine, unit_ctx, varsSessions, varsUnits, varsController, varsGrpc, last>>

NextTel == TelProcessInput \/ TelPollOutput

SpecTel == Init /\ [][NextTel]_vars

\* echo.process_input(EchoInput::Position(pos))
EchoProcessInput ==
    /\ \E pos \in Positions :
        /\ echo_machine' = EchoMachine_process_input(
                                echo_machine, [tag |-> "Position", pos |-> pos])
        /\ last' = [op |-> "echo_process_input", val |-> Some(pos)]
    /\ UNCHANGED <<varsRpc, command_machine, telemetry_machine, history,
                   unit_ctx,
                   varsSessions, varsUnits, varsController, varsGrpc>>

\* echo.poll_output()
EchoPollOutput ==
    /\ LET r == EchoMachine_poll_output(echo_machine) IN
        /\ echo_machine' = r.machine
        /\ last' = [op |-> "echo_poll_output", val |-> r.output,
                    pending |-> echo_machine.pending]
    /\ UNCHANGED <<varsRpc, command_machine, telemetry_machine, history,
                   unit_ctx,
                   varsSessions, varsUnits, varsController, varsGrpc>>

\* Both latest-value machines, each driven with any sequence of sets and polls.
NextLatest ==
    \/ TelProcessInput
    \/ TelPollOutput
    \/ EchoProcessInput
    \/ EchoPollOutput

SpecLatest == Init /\ [][NextLatest]_vars

\* -------------------------------- calls on one UnitContext, by concurrent tasks
\* The calls of op the tasks have begun, returned or not.
Begun(op) ==
    Len(Calls(history, op))
        + Cardinality({t \in Tasks : unit_ctx.calls[t].pc = op})

\* enqueue_command up to the lock: the task holds the guard of the command
\* machine. Each command enqueued is a new one.
CtxEnqueueLock ==
    /\ Begun("enqueue_command") < MaxEnqueues
    /\ \E t \in Tasks :
        LET l == lock(unit_ctx.command_machine, t) IN
        /\ unit_ctx.calls[t].pc = "idle"
        /\ l.acquired
        /\ unit_ctx' =
            [unit_ctx EXCEPT
                !.command_machine = l.mutex,
                !.calls[t] = [pc |-> "enqueue_command",
                              cmd |-> Some(Begun("enqueue_command") + 1),
                              front |-> None]]
    /\ UNCHANGED <<varsRpc, command_machine, telemetry_machine, echo_machine,
                   history, varsSessions, varsUnits, varsController, varsGrpc,
                   last>>

\* enqueue_command from process_input to the return, where the guard is
\* dropped.
CtxEnqueueCall ==
    /\ \E t \in Tasks :
        /\ unit_ctx.calls[t].pc = "enqueue_command"
        /\ unit_ctx' =
            [unit_ctx EXCEPT
                !.command_machine =
                    unlock([@ EXCEPT !.value =
                        CommandQueueMachine_process_input(
                            @, [tag |-> "Enqueue",
                                cmd |-> unit_ctx.calls[t].cmd[1]])]),
                !.calls[t] = [pc |-> "idle", cmd |-> None, front |-> None]]
        /\ history' = Append(history, [op |-> "enqueue_command", task |-> t,
                                       val |-> unit_ctx.calls[t].cmd])
    /\ UNCHANGED <<varsRpc, command_machine, telemetry_machine, echo_machine,
                   varsSessions, varsUnits, varsController, varsGrpc, last>>

\* poll_command up to pop_front's read of the front element, under the guard.
CtxPollLock ==
    /\ Begun("poll_command") < MaxPolls
    /\ \E t \in Tasks :
        LET l == lock(unit_ctx.command_machine, t) IN
        /\ unit_ctx.calls[t].pc = "idle"
        /\ l.acquired
        /\ unit_ctx' =
            [unit_ctx EXCEPT
                !.command_machine = l.mutex,
                !.calls[t] =
                    [pc |-> "poll_command", cmd |-> None,
                     front |-> IF is_empty(l.mutex.value) THEN None
                               ELSE Some(Head(l.mutex.value.pending_commands))]]
    /\ UNCHANGED <<varsRpc, command_machine, telemetry_machine, echo_machine,
                   history, varsSessions, varsUnits, varsController, varsGrpc,
                   last>>

\* poll_command from pop_front's removal of the front element to the return,
\* where the guard is dropped.
CtxPollCall ==
    /\ \E t \in Tasks :
        /\ unit_ctx.calls[t].pc = "poll_command"
        /\ unit_ctx' =
            [unit_ctx EXCEPT
                !.command_machine =
                    unlock([@ EXCEPT !.value =
                        CommandQueueMachine_poll_output(@).machine]),
                !.calls[t] = [pc |-> "idle", cmd |-> None, front |-> None]]
        /\ history' = Append(history, [op |-> "poll_command", task |-> t,
                                       val |-> unit_ctx.calls[t].front])
    /\ UNCHANGED <<varsRpc, command_machine, telemetry_machine, echo_machine,
                   varsSessions, varsUnits, varsController, varsGrpc, last>>

NextCtx ==
    \/ CtxEnqueueLock
    \/ CtxEnqueueCall
    \/ CtxPollLock
    \/ CtxPollCall

SpecCtx == Init /\ [][NextCtx]_vars

\* ----------------------------------------------------- the RPC client
\* connect up to the call of wait_for_server: the paths, create_broadcast
\* (which the producer may refuse), the outbound track, the timeout armed.
ConnectCreateBroadcast ==
    /\ connect_call.pc = "idle"
    /\ \E created \in BOOLEAN :
        LET path == client_path(RpcClientConfig_builder, grpc_path) IN
        IF created
        THEN /\ connect_call' = [connect_call EXCEPT !.pc = "wait_for_server",
                                                     !.broadcast = Some(path)]
             /\ published' = published \cup {path}
        ELSE LET r == connect_err(connect_call, published, "BroadcastCreate") IN
             /\ connect_call' = r.call
             /\ published' = r.published
    /\ elapsed' = 0
    /\ UNCHANGED <<varsMachines, varsSessions, varsUnits, varsController,
                   varsGrpc, varsRouter, tracks, consumer, announcements, last>>

\* One turn of wait_for_server's loop: announced() returns an item and the
\* match decides. A stream that has ended keeps returning None.
WaitAnnounced ==
    /\ connect_call.pc = "wait_for_server"
    /\ Len(announcements) < MaxAnnouncements
    /\ \E item \in AnnouncedItems :
        /\ (announcements # <<>> /\ announcements[Len(announcements)] = None)
                => item = None
        /\ announcements' = Append(announcements, item)
        /\ LET m == wait_for_server_match(
                        item, server_path(RpcClientConfig_builder, grpc_path))
               r == IF m = "Ok"
                    THEN connect_ok(connect_call, published, item[1].broadcast[1])
                    ELSE connect_err(connect_call, published, m)
           IN IF m = "continue"
              THEN UNCHANGED <<connect_call, published>>
              ELSE connect_call' = r.call /\ published' = r.published
    /\ UNCHANGED <<varsMachines, varsSessions, varsUnits, varsController,
                   varsGrpc, varsRouter, tracks, consumer, elapsed, last>>

\* Time passes while wait_for_server is pending, up to the deadline.
Tick ==
    /\ connect_call.pc = "wait_for_server"
    /\ elapsed < timeout
    /\ elapsed' = elapsed + 1
    /\ UNCHANGED <<varsMachines, varsSessions, varsUnits, varsController,
                   varsGrpc, varsRouter, tracks, consumer, connect_call, announcements, published, last>>

\* tokio::time::timeout at the deadline: Elapsed, converted to RpcError::Timeout
\* and returned by `?`.
WaitElapsed ==
    /\ connect_call.pc = "wait_for_server"
    /\ elapsed = timeout
    /\ LET r == connect_err(connect_call, published, "Timeout") IN
        /\ connect_call' = r.call
        /\ published' = r.published
    /\ UNCHANGED <<varsMachines, varsSessions, varsUnits, varsController,
                   varsGrpc, varsRouter, tracks, consumer, announcements, elapsed, last>>

NextClient == ConnectCreateBroadcast \/ WaitAnnounced \/ Tick \/ WaitElapsed

SpecClient == Init /\ [][NextClient]_vars

\* The timer is driven by the runtime: time passes and the deadline fires.
SpecClientFair == SpecClient /\ WF_vars(Tick) /\ WF_vars(WaitElapsed)

\* ------------------------------------------------------ the RPC router
\* run up to the loop: with_root on the configured prefix, which the consumer
\* may refuse (Unauthorized).
RouterRun ==
    /\ router.pc = "new"
    /\ \E authorized \in BOOLEAN :
        router' = IF authorized
                  THEN [router EXCEPT !.pc = "listening"]
                  ELSE [router EXCEPT !.pc = "returned",
                                      !.result = Some("Unauthorized")]
    /\ UNCHANGED <<varsMachines, varsSessions, varsUnits, varsController,
                   varsGrpc, varsClient, rpc_sessions, responses,
                   handler_tasks, last>>

\* One turn of run's loop: announced() returns an item; a live announcement
\* is handled, a departure is logged, the end of the stream breaks the loop.
RouterAnnounced ==
    /\ router.pc = "listening"
    /\ router.handled < MaxHandled
    /\ \E item \in RouterItems, created \in BOOLEAN :
        LET live == item # None /\ item[1].broadcast # None
            s == RouterState(rpc_sessions, responses, handler_tasks)
            h == IF live THEN handle_announcement(s, item[1].path, created)
                 ELSE IF item # None THEN run_departure(s, item[1].path)
                 ELSE s
            l == run_loop(item, h.result)
        IN /\ rpc_sessions' = h.sessions
           /\ responses' = h.responses
           /\ handler_tasks' = h.tasks
           /\ router' = [router EXCEPT !.pc = l.pc, !.result = l.result,
                                       !.handled = @ + 1]
           /\ last' = [op |-> "announced", item |-> item,
                       result |-> IF live THEN h.result ELSE "none"]
    /\ UNCHANGED <<varsMachines, varsSessions, varsUnits, varsController,
                   varsGrpc, varsClient>>

\* register before run: a connector is put under a call name. register takes
\* &mut self and run consumes the router, so no registration follows run.
RouterRegister ==
    /\ router.pc = "new"
    /\ \E name \in CallNames, connector \in Connectors :
        /\ router' = register(router, name, connector)
        /\ last' = [op |-> "register", name |-> name, connector |-> connector,
                    result |-> "Ok"]
    /\ UNCHANGED <<varsMachines, varsSessions, varsUnits, varsController,
                   varsGrpc, varsClient, rpc_sessions, responses, handler_tasks>>

HandlerIds == 1..Len(handler_tasks)

\* A handler task ends: its streams ended, the connector or a write failed,
\* or it panicked. Its ConnectionGuard is then dropped.
HandlerTerminate ==
    /\ \E t \in HandlerIds, exit \in {"stream_end", "error", "panic"} :
        /\ handler_tasks[t].pc = "running"
        /\ handler_tasks' = [handler_tasks EXCEPT ![t].pc = exit]
    /\ UNCHANGED <<varsMachines, varsSessions, varsUnits, varsController,
                   varsGrpc, varsClient, router, rpc_sessions, responses, last>>

\* Drop of the ConnectionGuard's session_guard field.
DropSessionGuard ==
    /\ \E t \in HandlerIds :
        /\ handler_tasks[t].pc # "running"
        /\ handler_tasks[t].session_guard
        /\ rpc_sessions' = SessionGuard_drop(rpc_sessions, handler_tasks[t].key)
        /\ handler_tasks' = [handler_tasks EXCEPT ![t].session_guard = FALSE]
    /\ UNCHANGED <<varsMachines, varsSessions, varsUnits, varsController,
                   varsGrpc, varsClient, router, responses, last>>

\* Drop of the ConnectionGuard's _response_broadcast field.
DropResponseBroadcast ==
    /\ \E t \in HandlerIds :
        /\ handler_tasks[t].pc # "running"
        /\ handler_tasks[t].response_broadcast
        /\ responses' = responses \ {t}
        /\ handler_tasks' = [handler_tasks EXCEPT ![t].response_broadcast = FALSE]
    /\ UNCHANGED <<varsMachines, varsSessions, varsUnits, varsController,
                   varsGrpc, varsClient, router, rpc_sessions, last>>

NextRouter ==
    \/ RouterRun
    \/ RouterAnnounced
    \/ HandlerTerminate
    \/ DropSessionGuard
    \/ DropResponseBroadcast

SpecRouter == Init /\ [][NextRouter]_vars

\* The router from construction on: registrations, then run and the tasks it
\* spawns.
NextRegister ==
    \/ RouterRegister
    \/ RouterRun
    \/ RouterAnnounced
    \/ HandlerTerminate
    \/ DropSessionGuard
    \/ DropResponseBroadcast

SpecRegister == Init /\ [][NextRegister]_vars

\* A task that has ended is unwound by the runtime: its guard's fields are
\* dropped.
SpecRouterFair ==
    SpecRouter /\ WF_vars(DropSessionGuard) /\ WF_vars(DropResponseBroadcast)

\* ------------------------------------------------- a call, end to end
\* One client and the router on one relay: the router's announced() reports
\* the client's request broadcast, the client's announced() reports the
\* router's response broadcast, and frames travel on the two tracks.

\* prost::Message::encode of a value into a frame and decode of a frame
encode(v) == <<"frame", v>>

decode(frame) == frame[2]

\* The echo connector: the stream it returns emits each request back.
echo(v) == v

\* The client's request announcement as the router's consumer, rooted at the
\* router's prefix, reports it.
RequestItem ==
    Some([path |-> with_root(client_prefix(RpcRouterConfig_builder),
                             client_path(RpcClientConfig_builder, grpc_path))[1],
          broadcast |-> Some("consumer")])

\* The announcement of task t's response broadcast as the client's consumer
\* reports it.
ResponseItem(t) ==
    Some([path |-> handler_tasks[t].response_path,
          broadcast |-> Some("consumer")])

\* The router's loop is handed the client's request broadcast, once.
RequestAnnounced ==
    /\ client_path(RpcClientConfig_builder, grpc_path) \in published
    /\ router.handled = 0
    /\ RouterAnnounced
    /\ last'.item = RequestItem

\* The client's wait_for_server is handed a response broadcast the router has
\* created, once.
ResponseAnnounced ==
    \E t \in responses :
        /\ \A i \in 1..Len(announcements) : announcements[i] # ResponseItem(t)
        /\ WaitAnnounced
        /\ announcements' = Append(announcements, ResponseItem(t))

\* RpcSender::send on the connection connect returned: the value is encoded
\* and written to the request track.
Send ==
    /\ connect_call.result = Some("Ok")
    /\ Len(tracks.sent) < MaxSent
    /\ \E v \in Positions :
        tracks' = [tracks EXCEPT !.sent = Append(@, v),
                                 !.outbound = Append(@, encode(v))]
    /\ UNCHANGED <<varsMachines, varsSessions, varsUnits, varsController,
                   varsGrpc, varsRouter, consumer, connect_call, announcements, elapsed,
                   published, last>>

\* The client's handler task, while it runs: it reads the next frame of the
\* request track, decodes it for the connector, and writes what the
\* connector's stream emits to the response track.
Bridge ==
    /\ \E t \in HandlerIds :
        /\ handler_tasks[t].pc = "running"
        /\ handler_tasks[t].key
            = SessionKey_new(RpcClientConfig_builder.client_id, grpc_path)
    /\ tracks.outbound # <<>>
    /\ tracks' = [tracks EXCEPT
                    !.outbound = Tail(@),
                    !.inbound = Append(@, encode(echo(decode(Head(tracks.outbound)))))]
    /\ UNCHANGED <<varsMachines, varsSessions, varsUnits, varsController,
                   varsGrpc, varsRouter, consumer, connect_call, announcements, elapsed,
                   published, last>>

\* RpcReceiver yields the next frame of the response track, decoded.
Receive ==
    /\ connect_call.result = Some("Ok")
    /\ tracks.inbound # <<>>
    /\ tracks' = [tracks EXCEPT !.inbound = Tail(@),
                                !.received = Append(@, decode(Head(tracks.inbound)))]
    /\ UNCHANGED <<varsMachines, varsSessions, varsUnits, varsController,
                   varsGrpc, varsRouter, consumer, connect_call, announcements, elapsed,
                   published, last>>

NextEcho ==
    \/ RouterRun
    \/ ConnectCreateBroadcast
    \/ RequestAnnounced
    \/ ResponseAnnounced
    \/ Tick
    \/ WaitElapsed
    \/ Send
    \/ Bridge
    \/ Receive
    \/ HandlerTerminate
    \/ DropSessionGuard
    \/ DropResponseBroadcast

SpecEcho == Init /\ [][NextEcho]_vars

\* The runtime polls every task that can run, the relay delivers what was
\* announced and written, and the timer runs.
SpecEchoFair ==
    /\ SpecEcho
    /\ WF_vars(RequestAnnounced) /\ WF_vars(ResponseAnnounced)
    /\ WF_vars(Tick) /\ WF_vars(WaitElapsed)
    /\ WF_vars(Bridge) /\ WF_vars(Receive)

\* ------------------------------------------ a client that connects again
\* One RpcClient calls connect, drops the connection and calls connect again.
\* Its OriginConsumer is shared by the calls: what the relay announces on it
\* is queued until wait_for_server asks for it.

\* The connect calls made so far.
Connects == Len(Calls(history, "connect"))

\* The departure of task t's response broadcast as the client's consumer
\* reports it.
DepartureItem(t) ==
    Some([path |-> handler_tasks[t].response_path, broadcast |-> None])

\* connect up to the call of wait_for_server, on a client that is not inside
\* a call and holds no connection.
ReConnect ==
    /\ Connects < MaxConnects
    /\ connect_call.pc \in {"idle", "returned"}
    /\ connect_call.connection = None
    /\ \E created \in BOOLEAN :
        LET path == client_path(RpcClientConfig_builder, grpc_path) IN
        IF created
        THEN /\ connect_call' = [connect_new EXCEPT !.pc = "wait_for_server",
                                                    !.broadcast = Some(path)]
             /\ published' = published \cup {path}
        ELSE LET r == connect_err(connect_new, published, "BroadcastCreate") IN
             /\ connect_call' = r.call
             /\ published' = r.published
    /\ elapsed' = 0
    /\ history' = Append(history, [op |-> "connect"])
    /\ UNCHANGED <<command_machine, telemetry_machine, echo_machine, unit_ctx,
                   varsSessions, varsUnits, varsController, varsGrpc,
                   varsRouter, tracks, consumer, announcements, last>>

\* The caller drops the RpcConnection, and with it the request broadcast.
ReConnectionDrop ==
    /\ connect_call.connection # None
    /\ connect_call' = [connect_call EXCEPT !.connection = None]
    /\ published' = published \ {connect_call.connection[1].broadcast}
    /\ UNCHANGED <<varsMachines, varsSessions, varsUnits, varsController,
                   varsGrpc, varsRouter, tracks, consumer, announcements,
                   elapsed, last>>

\* One turn of the router's loop on the request broadcast of the connect call
\* in progress, once per call. A response broadcast it creates is announced
\* on the client's consumer.
ReRequestAnnounced ==
    /\ router.pc = "listening"
    /\ router.handled < MaxHandled
    /\ client_path(RpcClientConfig_builder, grpc_path) \in published
    /\ history # <<>> /\ history[Len(history)].op = "connect"
    /\ \E created \in BOOLEAN :
        LET item == RequestItem
            s == RouterState(rpc_sessions, responses, handler_tasks)
            h == handle_announcement(s, item[1].path, created)
            l == run_loop(item, h.result)
        IN /\ rpc_sessions' = h.sessions
           /\ responses' = h.responses
           /\ handler_tasks' = h.tasks
           /\ router' = [router EXCEPT !.pc = l.pc, !.result = l.result,
                                       !.handled = @ + 1]
           /\ last' = [op |-> "announced", item |-> item, result |-> h.result]
           /\ history' = Append(history, [op |-> "announced"])
           /\ consumer' =
                IF h.result = "Ok"
                THEN Append(consumer,
                        Some([path |-> h.tasks[Len(h.tasks)].response_path,
                              broadcast |-> Some("consumer")]))
                ELSE consumer
    /\ UNCHANGED <<command_machine, telemetry_machine, echo_machine, unit_ctx,
                   varsSessions, varsUnits, varsController, varsGrpc,
                   connect_call, announcements, elapsed, published, tracks>>

\* Drop of the ConnectionGuard's _response_broadcast field: the departure is
\* announced on the client's consumer.
ReDropResponseBroadcast ==
    /\ \E t \in HandlerIds :
        /\ handler_tasks[t].pc # "running"
        /\ handler_tasks[t].response_broadcast
        /\ responses' = responses \ {t}
        /\ handler_tasks' = [handler_tasks EXCEPT ![t].response_broadcast = FALSE]
        /\ consumer' = Append(consumer, DepartureItem(t))
    /\ UNCHANGED <<varsMachines, varsSessions, varsUnits, varsController,
                   varsGrpc, router, rpc_sessions, connect_call, announcements,
                   elapsed, published, tracks, last>>

\* One turn of wait_for_server's loop: announced() returns the item at the
\* head of the consumer's queue and the match decides.
ReWaitAnnounced ==
    /\ connect_call.pc = "wait_for_server"
    /\ consumer # <<>>
    /\ consumer' = Tail(consumer)
    /\ announcements' = Append(announcements, Head(consumer))
    /\ LET item == Head(consumer)
           m == wait_for_server_match(
                    item, server_path(RpcClientConfig_builder, grpc_path))
           r == IF m = "Ok"
                THEN connect_ok(connect_call, published, item[1].broadcast[1])
                ELSE connect_err(connect_call, published, m)
       IN IF m = "continue"
          THEN UNCHANGED <<connect_call, published>>
          ELSE connect_call' = r.call /\ published' = r.published
    /\ UNCHANGED <<varsMachines, varsSessions, varsUnits, varsController,
                   varsGrpc, varsRouter, tracks, elapsed, last>>

NextReconnect ==
    \/ RouterRun
    \/ ReConnect
    \/ ReRequestAnnounced
    \/ ReWaitAnnounced
    \/ Tick
    \/ WaitElapsed
    \/ ReConnectionDrop
    \/ HandlerTerminate
    \/ DropSessionGuard
    \/ ReDropResponseBroadcast

SpecReconnect == Init /\ [][NextReconnect]_vars

\* The runtime polls every task that can run, the relay delivers what was
\* announced, and the timer runs.
SpecReconnectFair ==
    /\ SpecReconnect
    /\ WF_vars(ReRequestAnnounced) /\ WF_vars(ReWaitAnnounced)
    /\ WF_vars(Tick) /\ WF_vars(WaitElapsed)
    /\ WF_vars(DropSessionGuard) /\ WF_vars(ReDropResponseBroadcast)

\* ------------------------------------------------------------ the paths
\* The prefixes a configuration can carry; a prefix may itself hold a '/'.
Prefixes == {<<"drone">>, <<"server">>, <<"fleet", "a">>}

OptionPrefixes == {None} \cup {Some(p) : p \in Prefixes}

\* Client ids; the last one holds a '/'.
ClientIds == {<<"drone-1">>, <<"drone-2">>, <<"fleet", "drone-3">>}

\* RpcClientConfig::builder() with every choice of client_id and prefixes
RpcClientConfigs ==
    [client_id : ClientIds, client_prefix : OptionPrefixes,
     server_prefix : OptionPrefixes]

\* RpcRouterConfig::builder() with every choice of prefixes
RpcRouterConfigs ==
    [client_prefix : OptionPrefixes, response_prefix : OptionPrefixes]

\* On a fresh system a client with some configuration connects for a call
\* name and a router with some configuration handles the announcement: the
\* path the client publishes at, the path it waits for, what the router
\* parses from the announcement under its prefix, and the path it creates the
\* response at.
Paths ==
    /\ last.op = "new"
    /\ \E config \in RpcClientConfigs, router_config \in RpcRouterConfigs,
          name \in CallNames :
        LET request_path ==
                parse_request_path(client_prefix(router_config),
                                   client_path(config, name))
        IN  last' = [op |-> "paths", config |-> config,
                     router_config |-> router_config, grpc_path |-> name,
                     client_path |-> client_path(config, name),
                     server_path |-> server_path(config, name),
                     request_path |-> request_path,
                     response_path |->
                        IF request_path.ok
                        THEN Some(response_path(router_config,
                                                request_path.client_id,
                                                request_path.grpc_path))
                        ELSE None,
                     config_response_path |->
                        RpcRouterConfig_response_path(router_config,
                                                      config.client_id, name)]
    /\ UNCHANGED <<varsMachines, varsSessions, varsUnits, varsController,
                   varsGrpc, varsRpc>>

\* The prefix a client configuration puts in front: nothing when unset.
PrefixOf(config) ==
    IF config.client_prefix # None THEN config.client_prefix[1] ELSE <<>>

\* A request path a client constructs, or its first components only, is
\* parsed under some prefix.
Parse ==
    /\ last.op = "new"
    /\ \E config \in RpcClientConfigs, name \in CallNames,
          prefix \in Prefixes \cup {<<>>} :
        \E k \in 0..Len(client_path(config, name)) :
            LET path == SubSeq(client_path(config, name), 1, k)
            IN  last' = [op |-> "parse", config |-> config, grpc_path |-> name,
                         prefix |-> prefix, path |-> path,
                         complete |-> (k = Len(client_path(config, name))),
                         result |-> parse_request_path(prefix, path)]
    /\ UNCHANGED <<varsMachines, varsSessions, varsUnits, varsController,
                   varsGrpc, varsRpc>>

NextPath ==
    \/ Paths
    \/ Parse

SpecPath == Init /\ [][NextPath]_vars

\* ------------------------------------------------------------- claims
Values(h, op) == [i \in 1..Len(Calls(h, op)) |-> Calls(h, op)[i].val[1]]

Outputs(h) == Values(SelectSeq(h, LAMBDA e : e.val # None), "poll_output")

IsPrefix(s, t) == Len(s) <= Len(t) /\ SubSeq(t, 1, Len(s)) = s

Before(h, i) == SubSeq(h, 1, i - 1)

\* C9: for any interleaving of Enqueue inputs and polls, the commands the
\* polls return are a prefix of the commands enqueued (FIFO, none lost,
\* duplicated or reordered), a poll returns nothing exactly when every command
\* enqueued before it was already polled, and what is still pending is the rest.
C9_CommandQueueFifo ==
    /\ IsPrefix(Outputs(history), Values(history, "process_input"))
    /\ \A i \in 1..Len(history) :
        history[i].op = "poll_output" =>
            (history[i].val = None <=>
                Len(Outputs(Before(history, i)))
                    = Len(Values(Before(history, i), "process_input")))
    /\ Outputs(history) \o command_machine.pending_commands
        = Values(history, "process_input")

\* C9 witness: three distinct commands enqueued, all three polled, and a
\* fourth poll returned nothing.
C9_Witness ==
    /\ Len(history) = 7
    /\ Values(history, "process_input") = <<1, 2, 3>>
    /\ Outputs(history) = <<1, 2, 3>>
    /\ history[7] = [op |-> "poll_output", val |-> None]

SetsBetween(h, i) ==
    LET polls == {j \in 1..(i - 1) : h[j].op = "poll_output" /\ h[j].val # None}
        from == IF polls = {} THEN 0 ELSE CHOOSE j \in polls : \A k \in polls : k <= j
    IN {j \in (from + 1)..(i - 1) : h[j].op = "process_input"}

\* C10: every poll that returns a value returns the most recently set one,
\* and a poll returns a value exactly when a set occurred since the previous
\* poll that returned one: any number of sets between two polls gives one output.
C10_LatestValue ==
    \A i \in 1..Len(history) :
        history[i].op = "poll_output" =>
            LET sets == SetsBetween(history, i) IN
            IF sets = {}
            THEN history[i].val = None
            ELSE history[i].val
                    = history[CHOOSE j \in sets : \A k \in sets : k <= j].val

\* C10 witness: two different sets, then a poll returning the second value,
\* then a poll returning nothing.
C10_Witness ==
    /\ Len(history) = 4
    /\ history[1] = [op |-> "process_input", val |-> Some(1)]
    /\ history[2] = [op |-> "process_input", val |-> Some(2)]
    /\ history[3] = [op |-> "poll_output", val |-> Some(2)]
    /\ history[4] = [op |-> "poll_output", val |-> None]

Held(unit_id) == {s \in holders : s.unit_id = unit_id}

\* C1: in every reachable state of the session registry each key is held by
\* at most one session: the sessions admitted and not yet released are exactly
\* the registry's entries, one per key at most.
C1_OneSessionPerKey ==
    /\ \A unit_id \in UnitIds : Cardinality(Held(unit_id)) <= 1
    /\ holders = {sessions[u][1] : u \in {x \in UnitIds : sessions[x] # None}}

\* C1 witness: a key admitted, released and admitted again while the other
\* key is held too.
C1_Witness ==
    /\ Cardinality(holders) = 2
    /\ \E s \in released : Held(s.unit_id) # {}

\* C3: a create for k succeeds exactly when no session admitted for k is
\* still unreleased: it fails with SessionAlreadyActive from a successful
\* create until the release, and succeeds again after the release.
C3_CreateUntilRelease ==
    [][\A unit_id \in UnitIds :
        (last' # last /\ last'.op = "create_session" /\ last'.unit_id = unit_id)
            => /\ last'.result \in {"Ok", "SessionAlreadyActive"}
               /\ last'.result = "Ok" <=> Held(unit_id) = {}]_vars

\* C3 witness: a create has just succeeded for a key that an earlier session
\* held and released.
C3_Witness ==
    /\ last.op = "create_session"
    /\ last.result = "Ok"
    /\ \E s \in released : s.unit_id = last.unit_id

WeakOf(unit_ref) == unit_ref.weak_unit_context

\* C5: in a history of calls that do not overlap, a view on a reference whose
\* record remove_unit has removed fails with UnitViewInvalid and does not run
\* its closure.
C5_ViewAfterRemoveFails ==
    (last.op = "view" /\ WeakOf(last.unit_ref) \in removed)
        => (last.result = "UnitViewInvalid" /\ last.calls = 0)

\* C5 witness: a view has just failed on a reference to a removed record.
C5_Witness ==
    /\ last.op = "view"
    /\ WeakOf(last.unit_ref) \in removed
    /\ last.result = "UnitViewInvalid"

\* C6, as claimed: under concurrent use no view call that begins after
\* remove_unit has returned for its record gets to run its closure, also when
\* another task's view on that record is in progress when remove_unit runs.
C6_NoViewAfterRemove ==
    [][\A t \in Tasks :
        (viewing[t].pc = "idle" /\ viewing'[t].pc = "upgraded")
            => WeakOf(refs[t][1]) \notin removed]_vars

C8_RemovedOnDeparture ==
    /\ (last.op = "announced" /\ ~last.broadcast) => entity_map[last.unit_id] = None
    /\ (/\ last.op = "announced" /\ last.broadcast /\ last.result = "Ok"
        /\ \E s \in released : s.unit_id = last.unit_id)
            => arcs[entity_map[last.unit_id][1]].value = Some(UnitContext_new)

\* C8, amended: the record exists once the first announcement of its id is
\* handled and is never removed; handling a departure or a later announcement
\* leaves the record and what it holds as they were, so the session that
\* follows a re-contact works on the record of the session before it.
C8_RecordKeptAndReused ==
    /\ [](removed = {})
    /\ []((last.op = "announced" /\ last.broadcast) => entity_map[last.unit_id] # None)
    /\ [][\A u \in UnitIds : entity_map[u] # None =>
            /\ entity_map'[u] = entity_map[u]
            /\ <<broadcasts, present>>' # <<broadcasts, present>>
                    => arcs'[entity_map[u][1]] = arcs[entity_map[u][1]]]_vars

\* C8 witness: a session has just been admitted for an id that departed
\* before, and the record it works on holds a command and a position from
\* before the departure.
C8_Witness ==
    /\ last.op = "announced" /\ last.broadcast /\ last.result = "Ok"
    /\ \E s \in released : s.unit_id = last.unit_id
    /\ LET ctx == arcs[entity_map[last.unit_id][1]].value[1] IN
        /\ ctx.command_machine.pending_commands # <<>>
        /\ ctx.telemetry_machine.latest_position # None

\* The state of the connection a DroneSession call bridges.
ConnState(c) ==
    IF calls[c].pc = "admitted" THEN "Admitted"
    ELSE IF calls[c].task \in {"running", "cleanup"} THEN "Bridging"
    ELSE IF calls[c].task = "done" THEN "Closed"
    ELSE "none"

Open(unit_id) ==
    {c \in CallIds : /\ calls[c].drone_id = Some(unit_id)
                     /\ ConnState(c) \in {"Admitted", "Bridging"}}

Allowed(state) ==
    CASE state = "none" -> {"none", "Admitted"}
      [] state = "Admitted" -> {"Admitted", "Bridging", "Closed"}
      [] state = "Bridging" -> {"Bridging", "Closed"}
      [] state = "Closed" -> {"Closed"}

SessionOf(c) == [session_id |-> calls[c].session_id[1], unit_id |-> calls[c].drone_id[1]]

LastSet(h) ==
    LET sets == {i \in 1..Len(h) : h[i].op = "process_input"}
    IN IF sets = {} THEN None
       ELSE h[CHOOSE i \in sets : \A k \in sets : k <= i].val

\* C11: poll_output changes only the pending flag: whatever polls were made,
\* current_position() is the last value set (nothing before the first set),
\* and right after a poll has_pending() is false.
C11_PollKeepsLatest ==
    /\ current_position(telemetry_machine) = LastSet(history)
    /\ (Len(history) > 0 /\ history[Len(history)].op = "poll_output")
            => ~has_pending(telemetry_machine)

\* C11 witness: a value was set and then polled; it is still the current
\* position while nothing is pending.
C11_Witness ==
    /\ Len(history) = 2
    /\ history[1] = [op |-> "process_input", val |-> Some(2)]
    /\ history[2] = [op |-> "poll_output", val |-> Some(2)]
    /\ current_position(telemetry_machine) = Some(2)
    /\ ~has_pending(telemetry_machine)

ResponsePath == server_path(RpcClientConfig_builder, grpc_path)

Matching(h) == {i \in 1..Len(h) : h[i] # None /\ h[i][1].path = ResponsePath}

Ended(h) == \E i \in 1..Len(h) : h[i] = None

\* C13: during connect's response discovery an announcement on another path
\* never ends the wait (a call that returned after consuming only such
\* announcements returned Timeout), and Ok or ServerNotFound is returned
\* exactly on the first announcement whose path is the response path: Ok if it
\* carries a broadcast, ServerNotFound if it is a departure.
C13_FirstMatchDecides ==
    LET matches == Matching(announcements)
        n == Len(announcements)
    IN IF matches = {}
       THEN /\ connect_call.result \notin {Some("Ok"), Some("ServerNotFound")}
            /\ (n > 0 /\ ~Ended(announcements) /\ connect_call.result # None)
                    => connect_call.result = Some("Timeout")
       ELSE /\ matches = {n}
            /\ connect_call.result = IF announcements[n][1].broadcast # None
                                     THEN Some("Ok")
                                     ELSE Some("ServerNotFound")

\* C13 witness: a departure on another client's path and a live announcement
\* of the client's own request path were ignored, then the response path's
\* departure ended the wait with ServerNotFound.
C13_Witness ==
    /\ Len(announcements) = 3
    /\ announcements[1] = Some([path |-> <<"server", "drone-2">> \o grpc_path,
                                broadcast |-> None])
    /\ announcements[2] = Some([path |-> client_path(RpcClientConfig_builder, grpc_path),
                                broadcast |-> Some("consumer")])
    /\ announcements[3] = Some([path |-> ResponsePath, broadcast |-> None])
    /\ connect_call.result = Some("ServerNotFound")

\* C14: a connect call that waits for the server returns, once and with one
\* result that never changes; the end of the stream gives ConnectionClosed,
\* Timeout is returned at the deadline with no matching announcement consumed
\* and the stream not ended, and the wait never lasts beyond the timeout.
C14_ConnectTerminates ==
    /\ [](/\ elapsed <= timeout
          /\ (connect_call.pc = "returned") = (connect_call.result # None)
          /\ Ended(announcements) = (connect_call.result = Some("ConnectionClosed"))
          /\ connect_call.result = Some("Timeout")
                => /\ elapsed = timeout
                   /\ Matching(announcements) = {}
                   /\ ~Ended(announcements))
    /\ [][connect_call.result # None => connect_call' = connect_call]_vars
    /\ (connect_call.pc = "wait_for_server" ~> connect_call.pc = "returned")

\* C14 witness: an announcement on another path was ignored, then the stream
\* ended before the deadline and connect returned ConnectionClosed.
C14_Witness ==
    /\ Len(announcements) = 2
    /\ announcements[1] # None
    /\ announcements[2] = None
    /\ elapsed < timeout
    /\ connect_call.pc = "returned"
    /\ connect_call.result = Some("ConnectionClosed")

\* C15 as stated: after connect has returned Timeout the request broadcast it
\* created still exists.
C15_ChannelKeptOnTimeout ==
    connect_call.result = Some("Timeout")
        => client_path(RpcClientConfig_builder, grpc_path) \in published

\* C15, amended: after connect has returned Timeout the request broadcast it
\* created has been dropped with connect's locals: nothing is published and the
\* caller holds neither the broadcast nor a connection.
C15_ChannelDroppedOnTimeout ==
    connect_call.result = Some("Timeout")
        => /\ published = {}
           /\ connect_call.broadcast = None
           /\ connect_call.connection = None

\* C15 witness: the wait was cancelled by the timeout after the request
\* broadcast had been created.
C15_Witness ==
    /\ connect_call.pc = "returned"
    /\ connect_call.result = Some("Timeout")
    /\ elapsed = timeout
    /\ published = {}

\* The step is a turn of the router's loop.
Handled == router'.handled = router.handled + 1

\* C16: a step in which an admission attempt is rejected with
\* SessionAlreadyActive changes nothing but the record of the attempt: in the
\* router the session map, the handler tasks and the response broadcasts are
\* the same after it; in the controller the sessions, the tasks and the unit
\* records are; in the gRPC server the sessions, the unit records and every
\* other call are, and the rejected call has no task and no stream.
C16_RejectedChangesNothing ==
    /\ [][(Handled /\ last'.result = "SessionAlreadyActive") =>
            /\ rpc_sessions' = rpc_sessions
            /\ handler_tasks' = handler_tasks
            /\ responses' = responses
            /\ varsUnits' = varsUnits]_vars
    /\ [][(broadcasts' = broadcasts + 1 /\ last'.result = "SessionAlreadyActive") =>
            /\ sessions' = sessions /\ holders' = holders
            /\ tasks' = tasks
            /\ entity_map' = entity_map /\ arcs' = arcs]_vars
    /\ [][\A c \in CallIds :
            (calls[c].pc = "create_session" /\ calls'[c].pc = "returned") =>
                /\ calls'[c].status = Some("already_exists")
                /\ calls'[c].task = "none" /\ calls'[c].stream = "none"
                /\ sessions' = sessions /\ holders' = holders
                /\ entity_map' = entity_map /\ arcs' = arcs
                /\ \A d \in CallIds \ {c} : calls'[d] = calls[d]]_vars

\* C16 witness: the router has just rejected a second live announcement for
\* a key whose session is held by a running handler task.
C16_Witness ==
    /\ router.handled = 2
    /\ last.op = "announced"
    /\ last.result = "SessionAlreadyActive"
    /\ Len(handler_tasks) = 1
    /\ handler_tasks[1].pc = "running"
    /\ rpc_sessions = {handler_tasks[1].key}
    /\ responses = {1}

\* C17: a turn of the router's loop on a live announcement whose call name
\* has no registered handler ends with NoHandler, leaves the session map, the
\* response broadcasts and the handler tasks as they were, and leaves the
\* router listening.
C17_NoHandlerBeforeAdmission ==
    [][(/\ Handled
        /\ last'.item # None
        /\ last'.item[1].broadcast # None
        /\ RpcRequestPath_parse(last'.item[1].path).ok
        /\ ~has_handler(router, RpcRequestPath_parse(last'.item[1].path).grpc_path))
        => /\ last'.result = "NoHandler"
           /\ rpc_sessions' = rpc_sessions
           /\ responses' = responses
           /\ handler_tasks' = handler_tasks
           /\ router'.pc = "listening"]_vars

\* C17 witness: after a NoHandler failure the router has admitted the next
\* announcement.
C17_Witness ==
    /\ router.handled = 2
    /\ last.op = "announced"
    /\ last.result = "Ok"
    /\ Len(handler_tasks) = 1
    /\ rpc_sessions = {handler_tasks[1].key}
    /\ ~has_active(rpc_sessions,
                   SessionKey_new(<<"drone-1">>, <<"drone.OtherService", "Call">>))

\* C18: a turn of the router's loop ends the loop exactly when announced()
\* returned None, and run then returns Ok; after a failure of
\* handle_announcement or a departure the router is still listening.
C18_RunEndsWithStream ==
    /\ [][Handled => IF last'.item = None
                     THEN router'.pc = "returned" /\ router'.result = Some("Ok")
                     ELSE router'.pc = "listening"]_vars
    /\ [][(router.pc = "listening" /\ router'.pc # "listening") => Handled]_vars

\* C18 witness: a failed announcement and a departure were handled, then the
\* stream ended and run returned Ok.
C18_Witness ==
    /\ router.handled = 3
    /\ router.pc = "returned"
    /\ router.result = Some("Ok")
    /\ last.op = "announced"
    /\ last.item = None

\* C19: in every state a handler task's session key is released exactly when
\* its response broadcast is: no state shows one of the two released and the
\* other still there.
C19_ReleasedTogether ==
    \A t \in HandlerIds :
        handler_tasks[t].session_guard = (t \in responses)

\* The key a live announcement's path names.
KeyOf(item) ==
    SessionKey_new(RpcRequestPath_parse(item[1].path).client_id,
                   RpcRequestPath_parse(item[1].path).grpc_path)

\* C20: every key in the session map is held by the guard of a handler task
\* that has not dropped it; a turn of the router's loop that fails with
\* BroadcastCreate leaves its key free; an announcement for a registered call
\* whose key is free is not rejected with SessionAlreadyActive; and the guard
\* of a task that has ended (stream end, error or panic) is dropped.
C20_SessionsNeverLeak ==
    /\ [](\A key \in rpc_sessions :
            \E t \in HandlerIds :
                handler_tasks[t].key = key /\ handler_tasks[t].session_guard)
    /\ [][(Handled /\ last'.result = "BroadcastCreate") =>
            ~has_active(rpc_sessions', KeyOf(last'.item))]_vars
    /\ [][(/\ Handled
           /\ last'.result \notin {"none", "PathParse", "NoHandler"}
           /\ ~has_active(rpc_sessions, KeyOf(last'.item)))
            => last'.result \in {"Ok", "BroadcastCreate"}]_vars
    /\ \A t \in 1..MaxHandled :
            (t \in HandlerIds /\ handler_tasks[t].pc # "running")
                ~> (t \in HandlerIds /\ ~handler_tasks[t].session_guard
                                     /\ handler_tasks[t].pc # "running")

\* C20 witness: the first holder panicked and its guard was dropped; the next
\* announcement for the key was admitted and failed with BroadcastCreate, and
\* the key is free again.
C20_Witness ==
    /\ Len(handler_tasks) = 1
    /\ handler_tasks[1].pc = "panic"
    /\ ~handler_tasks[1].session_guard
    /\ last.op = "announced"
    /\ last.result = "BroadcastCreate"
    /\ ~has_active(rpc_sessions, handler_tasks[1].key)

\* The step is a poll_output call on the command machine.
CmdPolled ==
    /\ Len(history') = Len(history) + 1
    /\ history'[Len(history')].op = "poll_output"

\* C30: pending_count is the number of enqueues minus the number of polls
\* that returned a command, and is_empty holds exactly when it is 0; a poll on
\* a non-empty queue returns one command and lowers pending_count by one, a
\* poll on an empty queue returns nothing and leaves the machine unchanged.
C30_OneOutputPerPoll ==
    /\ [](/\ pending_count(command_machine)
                = Len(Calls(history, "process_input")) - Len(Outputs(history))
          /\ is_empty(command_machine) = (pending_count(command_machine) = 0))
    /\ [][CmdPolled =>
            IF is_empty(command_machine)
            THEN /\ history'[Len(history')].val = None
                 /\ command_machine' = command_machine
            ELSE /\ history'[Len(history')].val # None
                 /\ pending_count(command_machine')
                        = pending_count(command_machine) - 1]_vars

\* C30 witness: two commands were enqueued and one poll returned one of them,
\* leaving one pending.
C30_Witness ==
    /\ Len(history) = 3
    /\ history[1].op = "process_input"
    /\ history[2].op = "process_input"
    /\ history[3].op = "poll_output" /\ history[3].val # None
    /\ pending_count(command_machine) = 1
    /\ ~is_empty(command_machine)

\* C26: a remove_session call for a key succeeds exactly when the key is
\* active; it then returns the session the admitting create stored (same
\* session id, same key), the key is no longer active and the other keys are
\* untouched; for a key that is not active it fails with SessionNotFound and
\* the registry is unchanged.
C26_RemoveExactlyWhenActive ==
    [][\A unit_id \in UnitIds :
        (last' # last /\ last'.op = "remove_session" /\ last'.unit_id = unit_id)
            => IF has_active_session(sessions, unit_id)
               THEN /\ last'.result = "Ok"
                    /\ Held(unit_id) = {last'.session[1]}
                    /\ get_session_id(sessions, unit_id)
                            = Some(last'.session[1].session_id)
                    /\ ~has_active_session(sessions', unit_id)
                    /\ \A u \in UnitIds \ {unit_id} : sessions'[u] = sessions[u]
               ELSE /\ last'.result = "SessionNotFound"
                    /\ sessions' = sessions]_vars

\* C26 witness: a remove has just returned the session created for its key,
\* and the key is no longer active.
C26_Witness ==
    /\ last.op = "remove_session"
    /\ last.result = "Ok"
    /\ last.session[1] \in released
    /\ ~has_active_session(sessions, last.unit_id)

\* SessionMap::len, as RpcRouter::active_sessions returns it
active_sessions(map) == Cardinality(map)

\* C29: the registry's count is the number of keys for which has_active is
\* true, which is the number of sessions created and not yet removed; a
\* successful create raises it by one, a successful remove lowers it by one, a
\* failed create or remove leaves it unchanged. In the router the count is the
\* number of session guards not yet dropped.
C29_CountIsActiveKeys ==
    /\ [](/\ active_session_count(sessions)
                = Cardinality({u \in UnitIds : has_active_session(sessions, u)})
          /\ active_session_count(sessions) = Cardinality(holders)
          /\ active_sessions(rpc_sessions)
                = Cardinality({t \in HandlerIds : handler_tasks[t].session_guard}))
    /\ [][(last' # last /\ last'.op \in {"create_session", "remove_session"})
            => active_session_count(sessions')
                = active_session_count(sessions)
                    + (IF last'.result # "Ok" THEN 0
                       ELSE IF last'.op = "create_session" THEN 1 ELSE 0 - 1)]_vars

\* C29 witness: two keys are active and a create for one of them has just
\* failed, leaving the count at 2.
C29_Witness ==
    /\ active_session_count(sessions) = 2
    /\ Cardinality(holders) = 2
    /\ last.op = "create_session"
    /\ last.result = "SessionAlreadyActive"

\* C27: insert_unit fails with UnitAlreadyPresent exactly when the id is
\* present, and then the map, the records and the references are unchanged;
\* remove_unit and get_unit fail with UnitNotFound exactly when the id is
\* absent, and then change nothing; a call whose precondition holds returns
\* Ok, so of two inserts for one absent id the first to reach the map succeeds
\* and the other fails.
C27_FailExactlyOnPrecondition ==
    [][\A unit_id \in UnitIds :
        (/\ last' # last
         /\ last'.op \in {"insert_unit", "remove_unit", "get_unit"}
         /\ last'.unit_id = unit_id)
        => IF last'.op = "insert_unit"
           THEN IF entity_map[unit_id] # None
                THEN /\ last'.result = "UnitAlreadyPresent"
                     /\ entity_map' = entity_map /\ arcs' = arcs /\ refs' = refs
                ELSE /\ last'.result = "Ok"
                     /\ entity_map'[unit_id] # None
           ELSE IF entity_map[unit_id] = None
                THEN /\ last'.result = "UnitNotFound"
                     /\ entity_map' = entity_map /\ arcs' = arcs /\ refs' = refs
                ELSE /\ last'.result = "Ok"
                     /\ (last'.op = "remove_unit") = (entity_map'[unit_id] = None)]_vars

\* C27 witness: an insert has just failed against a present id whose record
\* a task holds a reference to, and the record is still alive.
C27_Witness ==
    /\ last.op = "insert_unit"
    /\ last.result = "UnitAlreadyPresent"
    /\ entity_map[last.unit_id] # None
    /\ \E t \in Tasks :
        /\ refs[t] # None
        /\ Some(WeakOf(refs[t][1])) = entity_map[last.unit_id]
        /\ arcs[WeakOf(refs[t][1])].strong = 1

\* The tasks inside a view call on allocation a.
Viewing(a) == {t \in Tasks : viewing[t].arc = Some(a)}

\* C28, as claimed: a view call gets to run its closure only while the map
\* still holds the record its reference was taken from; a view that fails ran
\* the closure zero times, its record was removed and nothing changed; a view
\* that returns Ok ran it once; and a remove_unit with no view in progress on
\* the record drops the record, whatever references are held.
C28_ViewOnceOrInvalid ==
    /\ [][\A t \in Tasks :
            (viewing[t].pc = "idle" /\ viewing'[t].pc = "upgraded")
                => entity_map[refs[t][1].unit_id] = Some(WeakOf(refs[t][1]))]_vars
    /\ [][(last' # last /\ last'.op = "view") =>
            IF last'.result = "Ok"
            THEN last'.calls = 1
            ELSE /\ last'.result = "UnitViewInvalid"
                 /\ last'.calls = 0
                 /\ WeakOf(last'.unit_ref) \in removed
                 /\ arcs' = arcs]_vars
    /\ [][\A unit_id \in UnitIds :
            (/\ last' # last /\ last'.op = "remove_unit"
             /\ last'.unit_id = unit_id /\ last'.result = "Ok"
             /\ Viewing(entity_map[unit_id][1]) = {})
            => arcs'[entity_map[unit_id][1]] = [strong |-> 0, value |-> None]]_vars

\* C25: a register call returns Ok whether or not the name had a handler;
\* after it has_handler(name) is true, the name has the one handler just
\* registered and the other names keep theirs; and every handler task was
\* dispatched to the handler its call name has, that is the last one
\* registered under it.
C25_LastRegistrationWins ==
    /\ [][(last' # last /\ last'.op = "register") =>
            /\ last'.result = "Ok"
            /\ has_handler(router', last'.name)
            /\ handlers_get(router'.handlers, last'.name) = Some(last'.connector)
            /\ Cardinality({h \in router'.handlers : h.name = last'.name}) = 1
            /\ \A name \in CallNames \ {last'.name} :
                    handlers_get(router'.handlers, name)
                        = handlers_get(router.handlers, name)]_vars
    /\ [](\A t \in HandlerIds :
            handler_tasks[t].handler
                = handlers_get(router.handlers, handler_tasks[t].key.grpc_path))
    /\ [][router.pc # "new" => router'.handlers = router.handlers]_vars

\* C25 witness: the echo call was registered again with a second connector
\* and an announcement for it was then dispatched to that connector.
C25_Witness ==
    /\ handlers_get(router.handlers, grpc_path) = Some("connector-2")
    /\ Len(handler_tasks) = 1
    /\ handler_tasks[1].key.grpc_path = grpc_path
    /\ handler_tasks[1].handler = Some("connector-2")

\* C24: with no prefix configured the request path is client/{client_id}/
\* {call_name} and the response path is server/{client_id}/{call_name}.
C24_DefaultPrefixes ==
    last.op = "paths" =>
        /\ last.config.client_prefix = None =>
            last.client_path
                = <<"client">> \o last.config.client_id \o last.grpc_path
        /\ last.config.server_prefix = None =>
            last.server_path
                = <<"server">> \o last.config.client_id \o last.grpc_path
        /\ last.router_config.response_prefix = None =>
            last.config_response_path
                = <<"server">> \o last.config.client_id \o last.grpc_path

\* C24 as the configurations compute it: with no prefix configured the
\* request path is {client_id}/{call_name} and so is the response path, with
\* no prefix component at all; a configured prefix is put in front.
C24_NoPrefixWhenUnset ==
    last.op = "paths" =>
        /\ last.client_path
            = (IF last.config.client_prefix = None THEN <<>>
               ELSE last.config.client_prefix[1])
                \o last.config.client_id \o last.grpc_path
        /\ last.server_path
            = (IF last.config.server_prefix = None THEN <<>>
               ELSE last.config.server_prefix[1])
                \o last.config.client_id \o last.grpc_path
        /\ last.config_response_path
            = (IF last.router_config.response_prefix = None THEN <<>>
               ELSE last.router_config.response_prefix[1])
                \o last.config.client_id \o last.grpc_path

\* C24 witness: paths built by a client and a router with no prefix set.
C24_Witness ==
    /\ last.op = "paths"
    /\ last.config.client_prefix = None
    /\ last.config.server_prefix = None
    /\ last.router_config.response_prefix = None
    /\ last.client_path = <<"drone-1">> \o grpc_path
    /\ last.server_path = <<"drone-1">> \o grpc_path

\* C23: parsing a request path constructed from a prefix, a client id without
\* '/' and a call name Service/Method, under that prefix, yields exactly the
\* client id and the call name, the call name with its own '/'; parsing fails
\* when the path is not under the prefix or fewer than two components follow
\* the prefix.
C23_ParseInvertsConstruction ==
    last.op = "parse" =>
        /\ (/\ last.complete
            /\ last.prefix = PrefixOf(last.config)
            /\ Len(last.config.client_id) = 1) =>
                /\ last.result.ok
                /\ last.result.client_id = last.config.client_id
                /\ last.result.grpc_path = last.grpc_path
                /\ Len(last.result.grpc_path) = 2
        /\ (\/ ~IsPrefix(last.prefix, last.path)
            \/ Len(last.path) - Len(last.prefix) < 2) => ~last.result.ok

\* C23 witness: a path constructed under the two-component prefix fleet/a for
\* drone-1 and the echo call was parsed back under that prefix.
C23_Witness ==
    /\ last.op = "parse"
    /\ last.complete
    /\ last.config.client_prefix = Some(<<"fleet", "a">>)
    /\ last.prefix = <<"fleet", "a">>
    /\ last.path = <<"fleet", "a", "drone-1", "drone.EchoService", "Echo">>
    /\ last.result
        = [ok |-> TRUE, client_id |-> <<"drone-1">>, grpc_path |-> grpc_path]

\* C22: for every client id and call name, when the router's response prefix
\* equals the client's server prefix (both set to the same value, or both
\* unset), the path the router creates the response channel at is the path
\* the client's connect waits for; and the router, listening under the
\* prefix the client is configured with, derives the client's (client_id,
\* call_name) from the path the client publishes at.
C22_ResponsePathsAgree ==
    (last.op = "paths" /\ Len(last.config.client_id) = 1) =>
        /\ (/\ last.config.client_prefix # None
            /\ last.router_config.client_prefix = last.config.client_prefix) =>
                /\ last.request_path.ok
                /\ last.request_path.client_id = last.config.client_id
                /\ last.request_path.grpc_path = last.grpc_path
        /\ (/\ last.router_config.response_prefix = last.config.server_prefix
            /\ last.request_path.ok) =>
                last.response_path = Some(last.server_path)

\* C22 for configured prefixes: when both sides have the same response prefix
\* set, and the same request prefix set, the paths agree.
C22_AgreeWhenSet ==
    (last.op = "paths" /\ Len(last.config.client_id) = 1) =>
        /\ (/\ last.config.client_prefix # None
            /\ last.router_config.client_prefix = last.config.client_prefix) =>
                /\ last.request_path.ok
                /\ last.request_path.client_id = last.config.client_id
                /\ last.request_path.grpc_path = last.grpc_path
        /\ (/\ last.config.server_prefix # None
            /\ last.router_config.response_prefix = last.config.server_prefix
            /\ last.request_path.ok) =>
                last.response_path = Some(last.server_path)

\* The client's connect is waiting for the response announcement.
Waiting == connect_call.pc = "wait_for_server"

Bridging ==
    \E t \in HandlerIds :
        /\ handler_tasks[t].pc = "running"
        /\ handler_tasks[t].key
            = SessionKey_new(RpcClientConfig_builder.client_id, grpc_path)

TelPolled ==
    /\ Len(history') = Len(history) + 1
    /\ history'[Len(history')].op = "poll_output"

\* A poll_output call on the EchoMachine is the step taken.
EchoPolled ==
    /\ last'.op = "echo_poll_output"
    /\ echo_machine' = EchoMachine_poll_output(echo_machine).machine
    /\ last'.val = EchoMachine_poll_output(echo_machine).output

\* C34: TelemetryMachine and EchoMachine start with no value and not pending,
\* and a poll before any set returns nothing; in every reachable state
\* pending implies a stored value; a poll made while pending returns the
\* stored value, never nothing, and clears the flag.
C34_PendingHasValue ==
    /\ [](history = <<>> => telemetry_machine = TelemetryMachine_new)
    /\ [](last.op = "new" => echo_machine = EchoMachine_new)
    /\ [](has_pending(telemetry_machine)
            => current_position(telemetry_machine) # None)
    /\ [](echo_machine.pending => echo_machine.latest_position # None)
    /\ [][TelPolled =>
            LET output == history'[Len(history')].val IN
            /\ telemetry_machine.latest_position = None => output = None
            /\ telemetry_machine.pending =>
                /\ output # None
                /\ output = telemetry_machine.latest_position
                /\ ~telemetry_machine'.pending]_vars
    /\ [][EchoPolled =>
            /\ echo_machine.latest_position = None => last'.val = None
            /\ echo_machine.pending =>
                /\ last'.val # None
                /\ last'.val = echo_machine.latest_position
                /\ ~echo_machine'.pending]_vars

\* C34 witness: each machine was polled before any set and returned nothing,
\* then was set and polled while pending, and the poll returned the value.
C34_Witness ==
    /\ Len(history) = 3
    /\ history[1] = [op |-> "poll_output", val |-> None]
    /\ history[2] = [op |-> "process_input", val |-> Some(1)]
    /\ history[3] = [op |-> "poll_output", val |-> Some(1)]
    /\ last = [op |-> "echo_poll_output", val |-> Some(2), pending |-> TRUE]
    /\ ~echo_machine.pending
    /\ ~has_pending(telemetry_machine)

\* C31: a departure announcement handled by the router leaves the session
\* registry, the handler table, the response broadcasts and the handler tasks
\* as they were, and run keeps listening; a session leaves the registry only
\* by the drop of the session guard of its own handler task, after that task
\* has ended.
C31_DepartureChangesNothing ==
    /\ [][(Handled /\ last'.item # None /\ last'.item[1].broadcast = None) =>
            /\ rpc_sessions' = rpc_sessions
            /\ router'.handlers = router.handlers
            /\ handler_tasks' = handler_tasks
            /\ responses' = responses
            /\ router'.pc = "listening"]_vars
    /\ [][\A key \in rpc_sessions \ rpc_sessions' :
            \E t \in HandlerIds :
                /\ handler_tasks[t].key = key
                /\ handler_tasks[t].pc # "running"
                /\ handler_tasks[t].session_guard
                /\ ~handler_tasks'[t].session_guard]_vars

\* C31 witness: the departure of drone-1's echo request broadcast was handled
\* while its session was active and its handler task running, and both are
\* still there.
C31_Witness ==
    /\ last.op = "announced"
    /\ last.item = Some([path |-> <<"drone-1">> \o grpc_path, broadcast |-> None])
    /\ Len(handler_tasks) = 1
    /\ handler_tasks[1].pc = "running"
    /\ handler_tasks[1].key = SessionKey_new(<<"drone-1">>, grpc_path)
    /\ has_active(rpc_sessions, handler_tasks[1].key)

\* C32: connect creates the request broadcast before it waits: whenever it
\* waits or has consumed an announcement the broadcast was created; when
\* create_broadcast fails connect returns BroadcastCreate in that step, with
\* no announcement consumed, no time waited and nothing published, and it
\* does not try again. When the router's create_broadcast for the response
\* fails, handle_announcement returns BroadcastCreate, no session, response
\* broadcast or task is left of the attempt, and run keeps listening.
C32_CreateFailureIsImmediate ==
    /\ [](Waiting =>
            /\ connect_call.broadcast
                = Some(client_path(RpcClientConfig_builder, grpc_path))
            /\ connect_call.broadcast[1] \in published)
    /\ [](announcements # <<>> => connect_call.result # Some("BroadcastCreate"))
    /\ [][(connect_call.pc = "idle" /\ connect_call'.pc # "idle") =>
            \/ /\ Waiting'
               /\ announcements' = <<>>
            \/ /\ connect_call'.pc = "returned"
               /\ connect_call'.result = Some("BroadcastCreate")
               /\ connect_call'.connection = None
               /\ announcements' = <<>>
               /\ elapsed' = 0
               /\ published' = published]_vars
    /\ [][connect_call.result = Some("BroadcastCreate") =>
            UNCHANGED <<connect_call, announcements, elapsed, published>>]_vars
    /\ [][(Handled /\ last'.result = "BroadcastCreate") =>
            /\ rpc_sessions' = rpc_sessions
            /\ responses' = responses
            /\ handler_tasks' = handler_tasks
            /\ router'.pc = "listening"]_vars

\* C32 witness: the producer refused the client's request broadcast while the
\* router was listening: connect has returned BroadcastCreate, having
\* consumed no announcement and waited no time, and nothing is published.
C32_Witness ==
    /\ router.pc = "listening"
    /\ connect_call.pc = "returned"
    /\ connect_call.result = Some("BroadcastCreate")
    /\ announcements = <<>>
    /\ elapsed = 0
    /\ published = {}

\* The router's side of C32: the producer refused the response broadcast for
\* the waiting client's announcement.
C32_RouterRefused ==
    /\ Waiting
    /\ last.op = "announced"
    /\ last.result = "BroadcastCreate"
    /\ rpc_sessions = {}
    /\ handler_tasks = <<>>
    /\ router.pc = "listening"

\* The commands the poll_command calls in h returned, in the order of return.
Polled(h) ==
    LET p == SelectSeq(h, LAMBDA e : e.op = "poll_command" /\ e.val # None)
    IN  [i \in 1..Len(p) |-> p[i].val[1]]

\* The commands the enqueue_command calls of the tasks in ts put in, in order.
Enqueued(h, ts) ==
    LET p == SelectSeq(h, LAMBDA e : e.op = "enqueue_command" /\ e.task \in ts)
    IN  [i \in 1..Len(p) |-> p[i].val[1]]

\* The commands of s that task t enqueued, in the order of s.
Of(s, t) ==
    SelectSeq(s, LAMBDA c : \E i \in 1..Len(Enqueued(history, {t})) :
                                Enqueued(history, {t})[i] = c)

\* C33: with the tasks calling enqueue_command and poll_command concurrently
\* on one UnitContext, no command is returned by two polls, every command
\* returned was enqueued, no command is lost (the commands enqueued are those
\* returned followed by those still pending), and the commands one task
\* enqueued are returned in that task's enqueue order.
C33_ConcurrentQueue ==
    /\ \A i, j \in 1..Len(Polled(history)) :
            Polled(history)[i] = Polled(history)[j] => i = j
    /\ Polled(history) \o unit_ctx.command_machine.value.pending_commands
        = Enqueued(history, Tasks)
    /\ \A t \in Tasks :
            IsPrefix(Of(Polled(history), t), Enqueued(history, {t}))

\* C33 witness: both tasks enqueued, their calls overlapping the other task's
\* polls, and the three commands were returned to two different pollers, each
\* once.
C33_Witness ==
    /\ Len(Polled(history)) = 3
    /\ Len(Enqueued(history, {"task-1"})) = 2
    /\ Len(Enqueued(history, {"task-2"})) = 1
    /\ \E i, j \in 1..Len(history) :
        /\ history[i].op = "poll_command" /\ history[i].val # None
        /\ history[j].op = "poll_command" /\ history[j].val # None
        /\ history[i].task # history[j].task
    /\ unit_ctx.command_machine.value.pending_commands = <<>>


\* The router has admitted the session of the connect call in progress and
\* the response broadcast it created is announced on the client's consumer.
NewSessionAnnounced ==
    \E t \in responses :
        /\ handler_tasks[t].pc = "running"
        /\ handler_tasks[t].key \in rpc_sessions
        /\ \E i \in 1..Len(consumer) : consumer[i] = ResponseItem(t)

\* C35: a connect made after the previous connection ended does not return
\* ServerNotFound when the router has admitted the new session and announced
\* its response channel, whatever the previous session left in the client's
\* announcement stream.
C35_ReconnectNotFailed ==
    [][(/\ Connects = 2
        /\ connect_call.pc = "wait_for_server"
        /\ NewSessionAnnounced)
            => connect_call'.result # Some("ServerNotFound")]_vars


\* The announcement of broadcast b created session s: the telemetry reader
\* spawned for that admission owns b.
CreatedBy(s, b) ==
    \E t \in tasks :
        /\ t.kind = "telemetry_reader"
        /\ t.broadcast = Some(b.id)
        /\ t.session_id = s.session_id

\* C36: in the controller a drone's session is ended only by the departure of
\* the peer whose announcement created it; the departure of a peer whose
\* announcement was rejected as a duplicate leaves the session of the first
\* peer in place.
C36_EndedByItsOwnPeer ==
    [][\A u \in DroneIds :
        (sessions[u] # None /\ sessions'[u] # sessions[u])
            => \E b \in present \ present' :
                    b.unit_id = u /\ CreatedBy(sessions[u][1], b)]_vars


\* C37: a command writer or command generator that passes its
\* has_active_session check and goes on to poll or enqueue is a task of the
\* drone's current session: the tasks spawned for a session that a departure
\* ended do not keep running under the session of a later re-announcement.
C37_TasksOfTheCurrentSession ==
    last.op \in {"poll_command", "enqueue_command"}
        => /\ sessions[last.unit_id] # None
           /\ sessions[last.unit_id][1].session_id = last.session_id


\* C38: in DroneSession, creating or reusing the entity record never fails:
\* a call that has found no record for its drone id and calls insert_unit
\* goes on to session admission; it does not return the internal status of
\* a failed insert, whatever another call for the same id does meanwhile.
C38_InsertNeverFails ==
    [][\A c \in CallIds :
        calls[c].pc = "insert_unit" => calls'[c].pc # "returned"]_vars


\* C40: whenever a session is active for a drone id, an entity record for
\* that id is in the entity registry: has_active_session(id) implies that
\* get_unit(id) succeeds.
C40_ActiveSessionHasUnit ==
    \A unit_id \in UnitIds :
        has_active_session(sessions, unit_id)
            => get_unit(entity_map, unit_id).result = "Ok"

\* C40 witness: the drone's second session is active, on the record its
\* first session created, and a task of the session has just polled it.
C40_Witness ==
    /\ has_active_session(sessions, "drone-1")
    /\ sessions["drone-1"][1].session_id = generate(1)
    /\ get_unit(entity_map, "drone-1").result = "Ok"
    /\ Len(arcs) = 1
    /\ last.op = "poll_command"
    /\ last.session_id = generate(1)


\* C39: when the client's request channel has departed and the client has
\* announced it again, with a handler registered for the call, a
\* re-announcement that the router handles while the previous bridging task
\* still holds its session is not dropped for good: the router eventually
\* creates a response channel (and a bridging task) for it.
C39_ReannouncementServed ==
    (/\ Connects = 2
     /\ last.op = "announced"
     /\ last.result = "SessionAlreadyActive")
        ~> (Len(handler_tasks) = 2)

=============================================================================
